---- MODULE Spec2Model ----
(***************************************************************************)
(* PaperScout: the reading-brief orchestrator of the terminal UI (package  *)
(* tui), the knowledge-base store (package notes) and the brief context    *)
(* builder (package context), as state machines.                           *)
(*                                                                         *)
(*   Spec       the UI model's single Update loop: document loads, the     *)
(*              three section jobs and the question queue; the bullets of  *)
(*              results and deltas, which no handler branches on for the   *)
(*              section states or the queue, are left empty.               *)
(*   SpecBrief  the same loop with the bullets of results and deltas and   *)
(*              the record of the last handler, for one question.          *)
(*   SpecStore  the store's operations as the jobs run them: goroutines    *)
(*              that read the whole log, change it in memory and write it  *)
(*              back, interleaved at every file access.                    *)
(*   SpecPackager  a context builder configured with budgets, and the      *)
(*              package it builds from a document.                         *)
(***************************************************************************)
EXTENDS Integers, Sequences, FiniteSets, TLC

(***************************************************************************)
(* Bounds of the model.                                                    *)
(***************************************************************************)
\* questions asked per loaded document (length of qaHistory)
MaxQuestions == 2
\* section jobs of earlier runs still in flight when a new run is launched
MaxPending == 0
\* bullets a section delta or result carries
MaxBullets == 1
\* store operations started
MaxCalls == 3
\* paragraphs of a document
MaxParagraphs == 2
\* the largest budget a builder is configured with, in runes
MaxBudget == 6

\* Deltas the adapter produces in one job: more than the channel holds
MaxDeltas == 5

(***************************************************************************)
(* Program data.                                                           *)
(***************************************************************************)
briefSectionKinds == <<"summary", "technical", "deepDive">>

Kinds == {briefSectionKinds[i] : i \in 1..Len(briefSectionKinds)}

\* m.paper == nil
NilPaper == [ID |-> "", FullText |-> FALSE, Abstract |-> FALSE]

\* The documents the fetch job can return: FullText and Abstract say whether
\* the trimmed text is non-empty.
Papers ==
    { [ID |-> "p1", FullText |-> TRUE,  Abstract |-> TRUE],
      [ID |-> "p2", FullText |-> FALSE, Abstract |-> FALSE] }

PaperIDs == {p.ID : p \in Papers}

\* briefSectionState{}
IdleState == [Loading |-> FALSE, Completed |-> FALSE, Error |-> ""]

\* The bullets of a delta or result of a job for document id: n bullets of
\* that document.
BulletsOf(id, n) == [i \in 1..n |-> id]

VARIABLES
    paper,               \* m.paper
    briefSections,       \* m.briefSections
    brief,               \* m.brief, bullets per kind
    briefLoading,        \* m.briefLoading
    briefStreamCancels,  \* the kinds m.briefStreamCancels holds a cancel for
    qaHistory,           \* m.qaHistory
    queuedQuestions,     \* m.queuedQuestions (indices into qaHistory, from 0)
    questionLoading,     \* m.questionLoading
    fetchJob,            \* a fetch job is in flight
    sectionJobs,         \* section jobs in flight: [paperID, kind, cancelled] -> count
    questionJobs,        \* question jobs in flight: {[paperID, index, stale]}
    lastOp,              \* the handler Update ran last, and its message
    stream,              \* the summary job of the run, its delta channel and reader
    scope                \* what this specification explores (never changes)

uiVars == <<paper, briefSections, brief, briefLoading,
            briefStreamCancels, qaHistory, queuedQuestions, questionLoading,
            fetchJob, sectionJobs, questionJobs, lastOp, stream>>

VARIABLES
    file,                \* the entries of the knowledge-base file
    fileCorrupt,         \* the file's bytes are not a JSON array
    fileMissing,         \* there is no file at the path
    storePc,             \* per store job: where it is in its operation
    storeOp,             \* per store job: the operation and its arguments
    storeBuf,            \* per store job: the entries it is about to write
    storeDone            \* the operations that returned, in order of return

storeVars == <<file, fileCorrupt, fileMissing, storePc, storeOp, storeBuf, storeDone>>

(***************************************************************************)
(* The brief context builder (package context).  A text is a sequence of   *)
(* runes; "é" takes two bytes, every other rune one.  The rune "§" stands  *)
(* for the words isBoilerplate looks for anywhere in a paragraph (doi,     *)
(* arxiv:, license and the prefixes), and the runes "m" and "l" stand for  *)
(* two of the keywords scoreTechnicalChunk counts.  The content is given   *)
(* as the paragraphs paragraphSplit cuts it into.                          *)
(***************************************************************************)
Space == " "

Letters == {"a", "m", "l", "é"}

Keywords == {"m", "l"}

\* The paragraphs a document is made of: plain, with a keyword, with a
\* leading space, with a doubled space, with two keywords and a two-byte
\* rune, with a boilerplate word, one short word, and blank.
Paragraphs ==
    { <<"a", " ", "a">>,
      <<"m", " ", "a">>,
      <<" ", "a", " ", "a">>,
      <<"a", " ", " ", "a">>,
      <<"é", " ", "l", " ", "m">>,
      <<"§", " ", "a">>,
      <<"a">>,
      <<" ">> }

Documents == UNION {[1..n -> Paragraphs] : n \in 0..MaxParagraphs}

maxBriefSummaryChars == 60000

maxBriefTechnicalChars == 110000

maxBriefDeepDiveChars == 40000

BriefSectionLimit(kind) ==
    CASE kind = "summary" -> maxBriefSummaryChars
      [] kind = "technical" -> maxBriefTechnicalChars
      [] kind = "deepDive" -> maxBriefDeepDiveChars

runeLen(text) == Len(text)

RECURSIVE byteLen(_)
byteLen(text) ==
    IF text = <<>> THEN 0
    ELSE (IF Head(text) = "é" THEN 2 ELSE 1) + byteLen(Tail(text))

Contains(text, r) == \E i \in 1..Len(text) : text[i] = r

\* unicode.IsSpace, of the runes that occur
isSpace(r) == r = Space \/ r = "\n"

\* strings.TrimSpace
RECURSIVE TrimSpace(_)
TrimSpace(text) ==
    IF text = <<>> THEN text
    ELSE IF isSpace(Head(text)) THEN TrimSpace(Tail(text))
    ELSE IF isSpace(text[Len(text)]) THEN TrimSpace(SubSeq(text, 1, Len(text) - 1))
    ELSE text

\* whitespaceSanity.ReplaceAllString(text, " ")
RECURSIVE collapseSpaces(_)
collapseSpaces(text) ==
    IF Len(text) < 2 THEN text
    ELSE IF text[1] = Space /\ text[2] = Space THEN collapseSpaces(Tail(text))
    ELSE <<Head(text)>> \o collapseSpaces(Tail(text))

canonicalParagraph_TrimOnly(text) == TrimSpace(text)

canonicalParagraph(text) == collapseSpaces(TrimSpace(text))

\* sha1 of the canonical text: the text itself (no two texts collide)
hashChunk(text) == text

isBoilerplate(paragraph) ==
    LET lower == TrimSpace(paragraph)
        alpha == Cardinality({i \in 1..Len(lower) : lower[i] \in Letters})
    IN  \/ lower = <<>>
        \/ Contains(lower, "§")
        \/ byteLen(lower) <= 12 /\ ~Contains(lower, Space)
        \/ alpha * 5 < byteLen(lower)

\* Build, the loop over the paragraphs
RECURSIVE buildChunks(_, _, _, _)
buildChunks(paragraphs, seen, chunks, cursor) ==
    IF paragraphs = <<>> THEN chunks
    ELSE LET trimmed == TrimSpace(Head(paragraphs))
             hash == hashChunk(canonicalParagraph(trimmed))
         IN  IF trimmed = <<>> \/ isBoilerplate(trimmed) \/ hash \in seen
             THEN buildChunks(Tail(paragraphs), seen, chunks, cursor)
             ELSE buildChunks(Tail(paragraphs), seen \cup {hash},
                              Append(chunks,
                                     [ID |-> hash, Text |-> trimmed,
                                      Start |-> cursor,
                                      End |-> cursor + runeLen(trimmed)]),
                              cursor + runeLen(trimmed))

scoreTechnicalChunk(text) == Cardinality({k \in Keywords : Contains(text, k)})

\* rankChunksForTechnical: by score, highest first; equal scores keep their order
RECURSIVE rankFrom(_, _)
rankFrom(chunks, left) ==
    IF left = {} THEN <<>>
    ELSE LET score(i) == scoreTechnicalChunk(chunks[i].Text)
             best == CHOOSE i \in left :
                        \A j \in left :
                           \/ score(i) > score(j)
                           \/ score(i) = score(j) /\ i <= j
         IN  <<chunks[best]>> \o rankFrom(chunks, left \ {best})

\* A ranking that leaves the chunks in document order
rankChunksForTechnical_Unranked(chunks) == chunks

rankChunksForTechnical(chunks) == rankFrom(chunks, 1..Len(chunks))

\* clipChunks, the loop: chunk idx (from 0) onto builder with remaining runes
RECURSIVE clipLoop(_, _, _, _)
clipLoop(chunks, idx, builder, remaining) ==
    IF idx >= Len(chunks) \/ remaining <= 0 THEN builder
    ELSE LET separate == idx > 0 /\ byteLen(builder) > 0
             joined == IF separate THEN builder \o <<"\n", "\n">> ELSE builder
             left == IF separate THEN remaining - 2 ELSE remaining
             runes == chunks[idx + 1].Text
         IN  IF separate /\ remaining <= 2 THEN builder
             ELSE IF Len(runes) > left THEN joined \o SubSeq(runes, 1, left)
             ELSE clipLoop(chunks, idx + 1, joined \o runes, left - Len(runes))

\* A clip that takes chunks whole while they fit and cuts none
RECURSIVE wholeLoop(_, _, _, _)
wholeLoop(chunks, idx, builder, remaining) ==
    IF idx >= Len(chunks) THEN builder
    ELSE LET runes == chunks[idx + 1].Text
             need == Len(runes) + (IF idx > 0 THEN 2 ELSE 0)
             joined == IF idx > 0 THEN builder \o <<"\n", "\n">> ELSE builder
         IN  IF need > remaining THEN builder
             ELSE wholeLoop(chunks, idx + 1, joined \o runes, remaining - need)

clipChunks_WholeChunks(chunks, budget) == wholeLoop(chunks, 0, <<>>, budget)

\* Every chunk, joined, whatever the budget
RECURSIVE clipChunks_Unclipped(_, _)
clipChunks_Unclipped(chunks, budget) ==
    IF chunks = <<>> THEN <<>>
    ELSE IF Len(chunks) = 1 THEN chunks[1].Text
    ELSE chunks[1].Text \o <<"\n", "\n">> \o clipChunks_Unclipped(Tail(chunks), budget)

clipChunks(chunks, budget) ==
    IF budget <= 0 THEN <<>> ELSE clipLoop(chunks, 0, <<>>, budget)

\* Build
BuildPackage(b, paragraphs) ==
    LET chunks == buildChunks(paragraphs, {}, <<>>, 0)
    IN  [Sections |-> [kind \in Kinds |->
                          clipChunks(IF kind = "technical"
                                     THEN rankChunksForTechnical(chunks)
                                     ELSE chunks,
                                     b[kind])],
         Chunks |-> chunks]

VARIABLES
    configured,          \* the budgets NewBuilder was given (0: none)
    budgets,             \* Builder.budgets
    content,             \* the content Build was given last
    pkg,                 \* the Package Build returned last
    sectionJob,          \* the section job run on that package, and its outcome
    bus                  \* the job bus, its jobs and the snapshots each has sent

packVars == <<configured, budgets, content, pkg, sectionJob, bus>>

NoPackage == [Sections |-> [kind \in Kinds |-> <<>>], Chunks |-> <<>>]

\* No section job has run.
NoSectionJob ==
    [kind |-> "", contextText |-> <<>>, FullText |-> <<>>, prompted |-> <<>>,
     refused |-> FALSE]

\* paper.FullText of a document: its paragraphs, a blank line between two
RECURSIVE FullTextOf(_)
FullTextOf(paragraphs) ==
    IF paragraphs = <<>> THEN <<>>
    ELSE IF Len(paragraphs) = 1 THEN paragraphs[1]
    ELSE paragraphs[1] \o <<"\n", "\n">> \o FullTextOf(Tail(paragraphs))

\* clipText
clipText(text, limit) ==
    LET trimmed == TrimSpace(text)
    IN  IF limit <= 0 \/ byteLen(trimmed) <= limit THEN trimmed
        ELSE IF runeLen(trimmed) <= limit THEN trimmed
        ELSE SubSeq(trimmed, 1, limit)

clipBriefSectionContext(kind, text) == clipText(text, BriefSectionLimit(kind))

\* A job that hands the adapter the packaged context as it is
sectionJobContent_ContextOnly(contextText, fullText) == contextText

\* briefSectionJob, the content the runner hands to StreamBriefSection
sectionJobContent(contextText, fullText) ==
    IF TrimSpace(contextText) = <<>> THEN fullText ELSE contextText

\* briefSectionJob's runner for `kind` with the context launchBriefSections
\* took from the package (contextForSection) and the document's text.
\* StreamBriefSection clips what it is given and refuses when nothing is
\* left ("paper text empty; cannot build ... section"); otherwise the
\* clipped text goes into the prompt.
briefSectionJob(kind) ==
    /\ sectionJob = NoSectionJob
    /\ LET contextText == pkg.Sections[kind]
           fullText == FullTextOf(content)
           clipped == clipBriefSectionContext(kind,
                          sectionJobContent(contextText, fullText))
       IN  sectionJob' = [kind |-> kind, contextText |-> contextText,
                          FullText |-> fullText, prompted |-> clipped,
                          refused |-> (clipped = <<>>)]

\* A constructor that keeps every budget as it is given
NewBuilder_AsGiven(b) ==
    /\ configured' = b
    /\ budgets' = b
    /\ content' = <<>>
    /\ pkg' = NoPackage

\* NewBuilder(b)
NewBuilder(b) ==
    /\ configured' = b
    /\ budgets' = [kind \in Kinds |->
                      IF b[kind] > 0 THEN b[kind] ELSE BriefSectionLimit(kind)]
    /\ content' = <<>>
    /\ pkg' = NoPackage

(***************************************************************************)
(* The job bus.  Start numbers the job and returns tea.Sequence(startCmd,  *)
(* runCmd): the runtime runs startCmd and sends its message to the update  *)
(* loop, then runs runCmd, which calls the runner and sends the envelope   *)
(* with the terminal snapshot.  The payload of the envelope is handled by  *)
(* the handlers above and is left out here.                                *)
(***************************************************************************)
\* The jobs started on the bus in one run
MaxJobs == 2

jobKindFetch == "fetch"

jobKindQuestion == "question"

JobKinds == {jobKindFetch, jobKindQuestion}

jobStatusRunning == "running"

jobStatusSucceeded == "succeeded"

jobStatusFailed == "failed"

\* The error a runner can return ("" is nil)
RunnerErrors == {"", "deadline exceeded"}

\* jobSnapshot; the times are left out
jobSnapshot(id, kind, status, err) ==
    [ID |-> id, Kind |-> kind, Status |-> status, Err |-> err]

NoSnapshot == jobSnapshot(<<"", 0>>, "", "", "")

\* newJobBus, and the model's empty jobSnapshots
NoBus ==
    [counter |-> 0, jobs |-> <<>>,
     jobSnapshots |-> [kind \in JobKinds |-> NoSnapshot]]

\* nextID: fmt.Sprintf("%s-%d", kind, idx)
nextID(kind, idx) == <<kind, idx>>

\* A terminal snapshot that reports success whatever the runner returned
terminalSnapshot_Succeeded(id, kind, err) ==
    jobSnapshot(id, kind, jobStatusSucceeded, "")

\* runCmd: the snapshot made when the runner has returned err
terminalSnapshot(id, kind, err) ==
    IF err # "" THEN jobSnapshot(id, kind, jobStatusFailed, err)
    ELSE jobSnapshot(id, kind, jobStatusSucceeded, "")

\* recordJobSnapshot
recordJobSnapshot(snapshots, snapshot) ==
    [snapshots EXCEPT ![snapshot.Kind] = snapshot]

busFrame == UNCHANGED <<configured, budgets, content, pkg, sectionJob, uiVars,
                        storeVars, scope>>

\* jobBus.Start, and the runtime taking the command it returns
Start(kind) ==
    /\ bus.counter < MaxJobs
    /\ LET idx == bus.counter + 1
       IN  bus' = [bus EXCEPT
                     !.counter = idx,
                     !.jobs = Append(@, [id |-> nextID(kind, idx), kind |-> kind,
                                         pc |-> "startCmd", err |-> "",
                                         sent |-> <<>>])]
    /\ busFrame

\* startCmd: the running snapshot is sent to the update loop
startCmd(i) ==
    /\ bus.jobs[i].pc = "startCmd"
    /\ bus' = [bus EXCEPT
                 !.jobs[i].pc = "signal",
                 !.jobs[i].sent =
                     Append(@, jobSnapshot(bus.jobs[i].id, bus.jobs[i].kind,
                                           jobStatusRunning, ""))]
    /\ busFrame

\* Update, case jobSignalMsg; the sequence goes on to runCmd
updateJobSignal(i) ==
    /\ bus.jobs[i].pc = "signal"
    /\ bus' = [bus EXCEPT
                 !.jobs[i].pc = "runCmd",
                 !.jobSnapshots =
                     recordJobSnapshot(@, jobSnapshot(bus.jobs[i].id, bus.jobs[i].kind,
                                                      jobStatusRunning, ""))]
    /\ busFrame

\* runCmd: the runner returns err and the envelope is sent
runCmd(i, err) ==
    /\ bus.jobs[i].pc = "runCmd"
    /\ bus' = [bus EXCEPT
                 !.jobs[i].pc = "envelope",
                 !.jobs[i].err = err,
                 !.jobs[i].sent =
                     Append(@, terminalSnapshot(bus.jobs[i].id, bus.jobs[i].kind,
                                                err))]
    /\ busFrame

\* Update, case jobResultEnvelope
updateJobResult(i) ==
    /\ bus.jobs[i].pc = "envelope"
    /\ bus' = [bus EXCEPT
                 !.jobs[i].pc = "done",
                 !.jobSnapshots =
                     recordJobSnapshot(@, terminalSnapshot(bus.jobs[i].id,
                                                           bus.jobs[i].kind,
                                                           bus.jobs[i].err))]
    /\ busFrame

\* The positions of the jobs started
JobSlots == 1..MaxJobs

NextJobs ==
    \/ \E kind \in JobKinds : Start(kind)
    \/ \E i \in JobSlots : i <= Len(bus.jobs) /\ startCmd(i)
    \/ \E i \in JobSlots : i <= Len(bus.jobs) /\ updateJobSignal(i)
    \/ \E i \in JobSlots, err \in RunnerErrors :
          i <= Len(bus.jobs) /\ runCmd(i, err)
    \/ \E i \in JobSlots : i <= Len(bus.jobs) /\ updateJobResult(i)

\* NewBuilder(nil)
InitPackager ==
    /\ configured = [kind \in Kinds |-> 0]
    /\ budgets = [kind \in Kinds |-> BriefSectionLimit(kind)]
    /\ content = <<>>
    /\ pkg = NoPackage
    /\ sectionJob = NoSectionJob
    /\ bus = NoBus

vars == <<uiVars, storeVars, packVars, scope>>

JobKeys == [paperID : PaperIDs, kind : Kinds, cancelled : BOOLEAN]

\* notes.BriefSectionMetadata
BriefSectionMetadata(kind, status, n) ==
    [Kind |-> kind, Status |-> status, DurationMs |-> n]

\* A nil *notes.BriefSnapshot.  A bullet list stands as the number of its
\* bullets, 0 is the nil list.
NilBrief == [nil |-> TRUE, lists |-> [kind \in Kinds |-> 0]]

\* &notes.BriefSnapshot{}: a brief whose three bullet lists are nil
EmptyBrief == [nil |-> FALSE, lists |-> [kind \in Kinds |-> 0]]

\* &notes.BriefSnapshot{<field of kind>: bullets}, n bullets
BriefSnapshot(kind, n) == [EmptyBrief EXCEPT !.lists[kind] = n]

\* The bullets a brief pointer holds for kind
BriefBullets(b, kind) == IF b.nil THEN 0 ELSE b.lists[kind]

\* notes.SnapshotUpdate with no payload
NoUpdate == [Messages |-> <<>>, Brief |-> NilBrief, SectionMetadata |-> <<>>]

\* The record of a handler run on a message for document id; kept when the
\* specification traces handlers.
\* sectionUpdate is the update of the snapshot job the section result handler
\* handed to the job bus, NoUpdate when it started none.
OpCmd(name, id, kind, err, update) ==
    IF scope.trace
    THEN [op |-> name, paperID |-> id, kind |-> kind, err |-> err,
          sectionUpdate |-> update]
    ELSE lastOp

Op(name, id, kind, err) == OpCmd(name, id, kind, err, NoUpdate)

\* appendConversationSnapshotCmd with a store path configured: the update of
\* the job it starts, NoUpdate when it returns no command
appendConversationSnapshotCmd(p, update) ==
    IF p = NilPaper THEN NoUpdate
    ELSE IF Len(update.Messages) = 0 THEN NoUpdate
    ELSE update

\* The guard of the section and question result handlers: the message is
\* for a document that is not the one shown.
staleMessage_NilOnly(p, id) == p = NilPaper

staleMessage(p, id) == p = NilPaper \/ p.ID # id

(***************************************************************************)
(* Section state.                                                          *)
(***************************************************************************)
\* resetBriefState: the section part
resetSections == [k \in Kinds |-> IdleState]

markBriefSectionRunning(sections, kind) ==
    [sections EXCEPT ![kind] = [@ EXCEPT !.Loading = TRUE, !.Error = ""]]

markBriefSectionResult_AbortSiblings(sections, kind, err) ==
    [k \in Kinds |->
        IF k = kind
        THEN [Loading |-> FALSE, Completed |-> ~err, Error |-> IF err THEN "err" ELSE ""]
        ELSE IF err THEN [sections[k] EXCEPT !.Loading = FALSE] ELSE sections[k]]

markBriefSectionResult_KeepCompleted(sections, kind, err) ==
    [sections EXCEPT ![kind] =
        IF err
        THEN [@ EXCEPT !.Loading = FALSE, !.Error = "err"]
        ELSE [@ EXCEPT !.Loading = FALSE, !.Error = "", !.Completed = TRUE]]

markBriefSectionResult(sections, kind, err) ==
    [sections EXCEPT ![kind] =
        IF err
        THEN [@ EXCEPT !.Loading = FALSE, !.Error = "err", !.Completed = FALSE]
        ELSE [@ EXCEPT !.Loading = FALSE, !.Error = "", !.Completed = TRUE]]

\* A check that finds no section loading
anyBriefSectionLoading_Never(sections) == FALSE

anyBriefSectionLoading(sections) == \E k \in Kinds : sections[k].Loading

briefReadyForQuestions_IgnoreSections(p, sections) == TRUE

briefReadyForQuestions(p, sections) ==
    IF p = NilPaper THEN TRUE
    ELSE IF ~p.FullText THEN TRUE
    ELSE \A k \in Kinds : ~(~sections[k].Completed /\ sections[k].Error = "")

(***************************************************************************)
(* Jobs in flight.                                                         *)
(***************************************************************************)
NoJobs == [t \in JobKeys |-> 0]

RECURSIVE SumJobs(_, _)
SumJobs(jobs, keys) ==
    IF keys = {} THEN 0
    ELSE LET t == CHOOSE x \in keys : TRUE
         IN jobs[t] + SumJobs(jobs, keys \ {t})

PendingJobs(jobs) == SumJobs(jobs, JobKeys)

cancelJobs_None(jobs, kinds) == jobs

\* cancel(): the context of every job of `kinds` not yet cancelled is cancelled
cancelJobs(jobs, kinds) ==
    [t \in JobKeys |->
        IF t.kind \notin kinds THEN jobs[t]
        ELSE IF t.cancelled THEN jobs[t] + jobs[[t EXCEPT !.cancelled = FALSE]]
        ELSE 0]

\* jobBus.Start of briefSectionJob for every kind
startSectionJobs(jobs, id) ==
    [t \in JobKeys |->
        IF t.paperID = id /\ ~t.cancelled THEN jobs[t] + 1 ELSE jobs[t]]

(***************************************************************************)
(* Questions.                                                              *)
(***************************************************************************)
NewQuestion == [Pending |-> TRUE, Answer |-> "", Error |-> ""]

enqueueQuestion_Front(queue, index) == <<index>> \o queue

enqueueQuestion(queue, index) == Append(queue, index)

\* launchQuestion: whether a job starts, and the history after the draft answer
launchQuestionStarts_Never(p, qa, index) == FALSE

launchQuestionStarts(p, qa, index) ==
    p # NilPaper /\ index >= 0 /\ index < Len(qa)

launchQuestionHistory(p, qa, index, allowDraft) ==
    IF ~launchQuestionStarts(p, qa, index) THEN qa
    ELSE IF allowDraft /\ qa[index + 1].Answer = "" /\ p.Abstract
         THEN [qa EXCEPT ![index + 1].Answer = "draft"]
         ELSE qa

maybeStartReleases_Never(p, sections, loading, queue) == FALSE

\* maybeStartQueuedQuestion: whether it releases the head of the queue
maybeStartReleases(p, sections, loading, queue) ==
    briefReadyForQuestions(p, sections) /\ ~loading /\ Len(queue) > 0

\* launchQuestion, from history qa with loading flag and jobs as they stand
launchQuestion(p, qa, index, allowDraft, loading, jobs) ==
    IF launchQuestionStarts(p, qa, index)
    THEN /\ qaHistory' = launchQuestionHistory(p, qa, index, allowDraft)
         /\ questionLoading' = TRUE
         /\ questionJobs' = jobs \cup {[paperID |-> p.ID, index |-> index, stale |-> FALSE]}
    ELSE /\ qaHistory' = qa
         /\ questionLoading' = loading
         /\ questionJobs' = jobs

\* A release that dispatches the head of the queue and leaves it queued
maybeStartQueuedQuestion_KeepsQueued(p, sections, qa, loading, jobs) ==
    IF maybeStartReleases(p, sections, loading, queuedQuestions)
    THEN /\ queuedQuestions' = queuedQuestions
         /\ launchQuestion(p, qa, Head(queuedQuestions), FALSE, loading, jobs)
    ELSE /\ queuedQuestions' = queuedQuestions
         /\ qaHistory' = qa
         /\ questionLoading' = loading
         /\ questionJobs' = jobs

maybeStartQueuedQuestion(p, sections, qa, loading, jobs) ==
    IF maybeStartReleases(p, sections, loading, queuedQuestions)
    THEN /\ queuedQuestions' = Tail(queuedQuestions)
         /\ launchQuestion(p, qa, Head(queuedQuestions), FALSE, loading, jobs)
    ELSE /\ queuedQuestions' = queuedQuestions
         /\ qaHistory' = qa
         /\ questionLoading' = loading
         /\ questionJobs' = jobs

(***************************************************************************)
(* The summary job of a run: briefSectionJob's runner, the channel of      *)
(* deltas it fills and closes, and the command that reads one delta at a   *)
(* time for Update (waitBriefSectionStream).                               *)
(***************************************************************************)
StreamKind == "summary"

\* make(chan llm.BriefSectionDelta, 4)
updatesCap == 4

\* llm.BriefSectionDelta: the bullets accumulated so far (their number), in
\* the order the adapter produced it (seq)
NoDelta == [seq |-> 0, bullets |-> 0, done |-> FALSE]

NoResult == [sent |-> FALSE, err |-> FALSE, bullets |-> 0]

\* No job has been started.
NoStream ==
    [pc |-> "idle", paperID |-> "", produced |-> 0, final |-> 0,
     sending |-> NoDelta, updates |-> <<>>, closed |-> FALSE,
     ctxDone |-> FALSE, reader |-> "none", msg |-> NoDelta,
     result |-> NoResult, applied |-> <<>>]

(***************************************************************************)
(* The state after New().                                                  *)
(***************************************************************************)
InitModel ==
    /\ paper = NilPaper
    /\ briefSections = resetSections
    /\ brief = [k \in Kinds |-> <<>>]
    /\ briefLoading = FALSE
    /\ briefStreamCancels = {}
    /\ qaHistory = <<>>
    /\ queuedQuestions = <<>>
    /\ questionLoading = FALSE
    /\ fetchJob = FALSE
    /\ sectionJobs = NoJobs
    /\ questionJobs = {}
    /\ lastOp = [op |-> "new", paperID |-> "", kind |-> "", err |-> FALSE,
                sectionUpdate |-> NoUpdate]
    /\ stream = NoStream

(***************************************************************************)
(* Keys.  The composer is focused in every stage, so in the input and      *)
(* display stages every key goes to processComposerKey: Alt+Enter submits  *)
(* the text as a URL and Enter (after Ctrl+Enter, if the mode was URL)     *)
(* submits it as a question.  The stage is stageLoading (or the palette    *)
(* over it) exactly while the fetch job is in flight, and there keys do    *)
(* not reach the composer; the palette opens from every stage, and Enter   *)
(* in it runs the command and closes it.                                   *)
(***************************************************************************)
\* submitComposer, composerModeURL
submitURL ==
    /\ ~fetchJob
    /\ fetchJob' = TRUE
    /\ lastOp' = Op("submitURL", "", "", FALSE)
    /\ UNCHANGED <<scope, storeVars, packVars, paper, briefSections, brief, briefLoading,
                   briefStreamCancels, qaHistory, queuedQuestions,
                   questionLoading, sectionJobs, questionJobs>>

\* submitComposer, composerModeQuestion
submitQuestion ==
    /\ ~fetchJob
    /\ paper # NilPaper
    /\ Len(qaHistory) < scope.questions
    /\ LET qa1 == Append(qaHistory, NewQuestion)
           idx == Len(qa1) - 1
       IN  IF ~briefReadyForQuestions(paper, briefSections)
           THEN /\ queuedQuestions' = enqueueQuestion(queuedQuestions, idx)
                /\ qaHistory' = qa1
                /\ UNCHANGED <<questionLoading, questionJobs>>
           ELSE /\ launchQuestion(paper, qa1, idx, TRUE, questionLoading, questionJobs)
                /\ UNCHANGED queuedQuestions
    /\ lastOp' = Op("submitQuestion", paper.ID, "", FALSE)
    /\ UNCHANGED <<scope, storeVars, packVars, paper, briefSections, brief, briefLoading,
                   briefStreamCancels, fetchJob, sectionJobs>>

\* launchBriefSections for document p, from sections and jobs as they stand
launchBriefSections(p, sections, jobs, cancels) ==
    /\ sectionJobs' = startSectionJobs(cancelJobs(jobs, cancels), p.ID)
    /\ briefStreamCancels' = Kinds
    /\ briefSections' = [k \in Kinds |-> markBriefSectionRunning(sections, k)[k]]
    /\ briefLoading' = TRUE

\* Stale jobs in flight: the jobs of earlier runs and earlier documents
StaleJobs == PendingJobs(sectionJobs) + Cardinality(questionJobs)

\* handlePaletteKey, Enter on "Summarize paper": actionSummarizeCmd
actionSummarizeCmd ==
    /\ paper # NilPaper
    /\ paper.FullText
    /\ ~briefLoading
    /\ PendingJobs(sectionJobs) <= scope.pending
    /\ launchBriefSections(paper, briefSections, sectionJobs, briefStreamCancels)
    /\ lastOp' = Op("summarize", paper.ID, "", FALSE)
    /\ UNCHANGED <<scope, storeVars, packVars, paper, brief, qaHistory, queuedQuestions,
                   questionLoading, fetchJob, questionJobs>>

\* handlePaletteKey, Enter on "Load another paper": actionLoadNewCmd
actionLoadNewCmd ==
    /\ paper # NilPaper
    /\ paper' = NilPaper
    /\ sectionJobs' = cancelJobs(sectionJobs, briefStreamCancels)
    /\ briefSections' = resetSections
    /\ brief' = [k \in Kinds |-> <<>>]
    /\ briefStreamCancels' = {}
    /\ briefLoading' = FALSE
    /\ lastOp' = Op("loadNew", "", "", FALSE)
    /\ UNCHANGED <<scope, storeVars, packVars, qaHistory, queuedQuestions, questionLoading, fetchJob,
                   questionJobs>>

(***************************************************************************)
(* Job results.                                                            *)
(***************************************************************************)
\* handlePaperResult, msg.err != nil
handlePaperError ==
    /\ fetchJob
    /\ fetchJob' = FALSE
    /\ lastOp' = Op("paperResult", "", "", TRUE)
    /\ UNCHANGED <<scope, storeVars, packVars, paper, briefSections, brief, briefLoading,
                   briefStreamCancels, qaHistory, queuedQuestions,
                   questionLoading, sectionJobs, questionJobs>>

\* handlePaperResult, msg.paper = p
handlePaperResult(p) ==
    /\ fetchJob
    /\ Cardinality(questionJobs) <= scope.pending
    /\ p.FullText => StaleJobs <= scope.pending
    /\ fetchJob' = FALSE
    /\ paper' = p
    /\ brief' = [k \in Kinds |-> <<>>]
    /\ qaHistory' = <<>>
    /\ queuedQuestions' = <<>>
    /\ questionLoading' = FALSE
    /\ questionJobs' = {[j EXCEPT !.stale = TRUE] : j \in questionJobs}
    /\ IF p.FullText
       THEN launchBriefSections(p, resetSections,
                                cancelJobs(sectionJobs, briefStreamCancels), {})
       ELSE /\ sectionJobs' = cancelJobs(sectionJobs, briefStreamCancels)
            /\ briefSections' = resetSections
            /\ briefStreamCancels' = {}
            /\ briefLoading' = FALSE
    /\ lastOp' = Op("paperResult", p.ID, "", FALSE)
    /\ UNCHANGED <<scope, storeVars, packVars>>

\* handleBriefSectionResult: the snapshot update built from a result
sectionResultUpdate(kind, err, n) ==
    IF err
    THEN [NoUpdate EXCEPT
            !.SectionMetadata = <<BriefSectionMetadata(kind, "failed", 0)>>]
    ELSE [NoUpdate EXCEPT
            !.Brief = IF n > 0 THEN BriefSnapshot(kind, n) ELSE NilBrief,
            !.SectionMetadata = <<BriefSectionMetadata(kind, "completed", 0)>>]

\* handleBriefSectionResult, the result of job t: err, or n bullets
handleBriefSectionResult(t, err, n) ==
    /\ sectionJobs[t] > 0
    /\ sectionJobs' = [sectionJobs EXCEPT ![t] = @ - 1]
    /\ lastOp' = OpCmd("sectionResult", t.paperID, t.kind, err,
                       IF staleMessage(paper, t.paperID) THEN NoUpdate
                       ELSE appendConversationSnapshotCmd(paper,
                                sectionResultUpdate(t.kind, err, n)))
    /\ IF staleMessage(paper, t.paperID)
       THEN UNCHANGED <<briefSections, brief, briefLoading, qaHistory,
                        queuedQuestions, questionLoading, questionJobs>>
       ELSE LET marked == markBriefSectionResult(briefSections, t.kind, err)
                sections == IF err
                            THEN [marked EXCEPT ![t.kind].Error = "section error"]
                            ELSE marked
            IN  /\ briefSections' = sections
                /\ briefLoading' = anyBriefSectionLoading(marked)
                /\ brief' = IF err THEN brief
                            ELSE [brief EXCEPT ![t.kind] = BulletsOf(t.paperID, n)]
                /\ maybeStartQueuedQuestion(paper, sections, qaHistory,
                                            questionLoading, questionJobs)
    /\ UNCHANGED <<scope, storeVars, packVars, paper, briefStreamCancels, fetchJob>>

\* A handler that completes the kind on the final delta and tells the
\* scheduler
briefSectionStreamMsg_Completes(id, kind, n, done) ==
    /\ lastOp' = Op("sectionStream", id, kind, FALSE)
    /\ IF staleMessage(paper, id)
       THEN UNCHANGED <<brief, briefSections, briefLoading, qaHistory,
                        queuedQuestions, questionLoading, questionJobs>>
       ELSE /\ brief' = IF n > 0 THEN [brief EXCEPT ![kind] = BulletsOf(id, n)]
                        ELSE brief
            /\ IF done
               THEN LET marked == markBriefSectionResult(briefSections, kind, FALSE)
                    IN  /\ briefSections' = marked
                        /\ briefLoading' = anyBriefSectionLoading(marked)
                        /\ maybeStartQueuedQuestion(paper, marked, qaHistory,
                                                    questionLoading, questionJobs)
               ELSE UNCHANGED <<briefSections, briefLoading, qaHistory,
                                queuedQuestions, questionLoading, questionJobs>>
    /\ UNCHANGED <<scope, storeVars, packVars, paper, briefStreamCancels,
                   fetchJob, sectionJobs>>

\* handleBriefSectionStream(msg): msg.paperID = id, msg.kind = kind, n bullets.
\* A final delta (msg.done) changes nothing else: the handler returns no
\* command, and neither the section's state nor the queue is touched.
briefSectionStreamMsg(id, kind, n, done) ==
    /\ lastOp' = Op("sectionStream", id, kind, FALSE)
    /\ IF staleMessage(paper, id)
       THEN UNCHANGED brief
       ELSE brief' = IF n > 0 THEN [brief EXCEPT ![kind] = BulletsOf(id, n)]
                     ELSE brief
    /\ UNCHANGED <<scope, storeVars, packVars, paper, briefSections, briefLoading,
                   briefStreamCancels, qaHistory, queuedQuestions,
                   questionLoading, fetchJob, sectionJobs, questionJobs>>

\* handleBriefSectionStream, a delta of job t: n bullets
handleBriefSectionStream(t, n, done) ==
    /\ sectionJobs[t] > 0
    /\ briefSectionStreamMsg(t.paperID, t.kind, n, done)

\* handleQuestionResult, the result of job j
handleQuestionResult(j, err) ==
    /\ j \in questionJobs
    /\ lastOp' = Op("questionResult", j.paperID, "", err)
    /\ IF staleMessage(paper, j.paperID)
       THEN /\ questionJobs' = questionJobs \ {j}
            /\ UNCHANGED <<qaHistory, queuedQuestions, questionLoading>>
       ELSE LET qa1 == IF j.index >= 0 /\ j.index < Len(qaHistory)
                       THEN [qaHistory EXCEPT ![j.index + 1] =
                               IF err
                               THEN [@ EXCEPT !.Pending = FALSE, !.Error = "err"]
                               ELSE [@ EXCEPT !.Pending = FALSE, !.Error = "",
                                              !.Answer = "answer"]]
                       ELSE qaHistory
            IN  maybeStartQueuedQuestion(paper, briefSections, qa1, FALSE,
                                         questionJobs \ {j})
    /\ UNCHANGED <<scope, storeVars, packVars, paper, briefSections, brief,
                   briefLoading, briefStreamCancels, fetchJob, sectionJobs>>

(***************************************************************************)
(* The summary job, step by step.  The runner (briefSectionJob) is a       *)
(* goroutine of the job bus; the adapter (StreamBriefSection) calls its    *)
(* handler once per delta, and the handler blocks in a select between the  *)
(* send on the channel and the context's Done.  Update reads the channel   *)
(* through one command at a time (waitBriefSectionStream) and receives the *)
(* runner's result as a message of its own.                                *)
(***************************************************************************)
\* Everything of the interface but the job
uiButStream ==
    <<paper, briefSections, brief, briefLoading, briefStreamCancels, qaHistory,
      queuedQuestions, questionLoading, fetchJob, sectionJobs, questionJobs,
      lastOp>>

\* A step of the runner or of the reading command: no field of the model moves.
jobStep(next) ==
    /\ stream' = next
    /\ UNCHANGED <<uiButStream, scope, storeVars, packVars>>

\* The runner returns: close(updates), and the bus posts the message.
runnerReturns(st, err) ==
    [st EXCEPT !.pc = "returned", !.closed = TRUE, !.sending = NoDelta,
               !.result = [sent |-> TRUE, err |-> err,
                           bullets |-> IF err THEN 0 ELSE st.final]]

\* launchBriefSections: the job of the summary is started and its first
\* waitBriefSectionStream is issued.
streamStarted(id) ==
    [NoStream EXCEPT !.pc = "running", !.paperID = id, !.reader = "waiting"]

\* cancel() of the run's context (resetBriefState / cancelBriefStreams)
streamCancelled(st) == [st EXCEPT !.ctxDone = (st.pc # "idle")]

\* StreamBriefSection's callback: the adapter has parsed a chunk and calls the
\* handler with the bullets accumulated so far.  A chunk that is not the last
\* is passed on only when there are bullets; the last one always.
adapterDelta(n, done) ==
    /\ stream.pc = "running"
    /\ stream.produced < MaxDeltas
    /\ n \in stream.final..scope.bullets
    /\ n <= stream.final + 1
    /\ done \/ n > 0
    /\ done => n = stream.final
    /\ jobStep([stream EXCEPT
                  !.pc = "select",
                  !.produced = @ + 1,
                  !.final = IF n > 0 THEN n ELSE @,
                  !.sending = [seq |-> stream.produced + 1, bullets |-> n,
                               done |-> done]])

\* streamGenerate fails: the request or the read of the body returns an
\* error (the context's, once it is done).
adapterFails ==
    /\ stream.pc = "running"
    /\ jobStep(runnerReturns(stream, TRUE))

\* streamGenerate: the body ends with no final chunk; scanner.Err() is nil.
adapterEnds ==
    /\ stream.pc = "running"
    /\ ~stream.ctxDone
    /\ jobStep(runnerReturns(stream, FALSE))

\* select, case updates <- delta: there is room in the channel.  After the
\* final delta streamGenerate breaks and the runner returns its result.
selectSend ==
    /\ stream.pc = "select"
    /\ Len(stream.updates) < updatesCap
    /\ LET sent == [stream EXCEPT !.updates = Append(@, stream.sending),
                                  !.sending = NoDelta,
                                  !.pc = "running"]
       IN  jobStep(IF stream.sending.done THEN runnerReturns(sent, FALSE)
                   ELSE sent)

\* select, case <-ctx.Done(): the handler returns ctx.Err() and the runner
\* returns it.
selectDone ==
    /\ stream.pc = "select"
    /\ stream.ctxDone
    /\ jobStep(runnerReturns(stream, TRUE))

\* context.WithTimeout(streamCtx, 2*time.Minute): the deadline passes
deadline ==
    /\ stream.pc \in {"running", "select"}
    /\ ~stream.ctxDone
    /\ jobStep([stream EXCEPT !.ctxDone = TRUE])

\* A reader that takes the delta sent last
waitBriefSectionStream_Newest ==
    /\ stream.reader = "waiting"
    /\ stream.updates # <<>>
    /\ jobStep([stream EXCEPT
                  !.updates = SubSeq(@, 1, Len(@) - 1),
                  !.msg = stream.updates[Len(stream.updates)],
                  !.reader = "msg"])

\* waitBriefSectionStream: delta, ok := <-updates
waitBriefSectionStream ==
    /\ stream.reader = "waiting"
    /\ \/ /\ stream.updates # <<>>
          /\ jobStep([stream EXCEPT !.updates = Tail(@),
                                     !.msg = Head(stream.updates),
                                     !.reader = "msg"])
       \/ /\ stream.updates = <<>>
          /\ stream.closed
          /\ jobStep([stream EXCEPT !.reader = "none"])

\* Update receives the briefSectionStreamMsg; unless the message is stale or
\* final, the next waitBriefSectionStream is issued.
streamDelivered ==
    /\ stream.reader = "msg"
    /\ briefSectionStreamMsg(stream.paperID, StreamKind, stream.msg.bullets,
                             stream.msg.done)
    /\ LET stale == staleMessage(paper, stream.paperID)
       IN  stream' = [stream EXCEPT
               !.msg = NoDelta,
               !.reader = IF stale \/ stream.msg.done THEN "none" ELSE "waiting",
               !.applied = IF stale \/ stream.msg.bullets = 0 THEN @
                           ELSE Append(@, [from |-> "delta",
                                           seq |-> stream.msg.seq,
                                           bullets |-> stream.msg.bullets,
                                           done |-> stream.msg.done,
                                           released |-> queuedQuestions' # queuedQuestions])]

\* Update receives the job's briefSectionMsg.
resultDelivered ==
    /\ stream.result.sent
    /\ \E t \in JobKeys :
          /\ t.paperID = stream.paperID
          /\ t.kind = StreamKind
          /\ handleBriefSectionResult(t, stream.result.err, stream.result.bullets)
    /\ stream' = [stream EXCEPT
           !.result = NoResult,
           !.applied = IF staleMessage(paper, stream.paperID) \/ stream.result.err
                       THEN @
                       ELSE Append(@, [from |-> "result", seq |-> 0,
                                       bullets |-> stream.result.bullets,
                                       done |-> TRUE,
                                       released |-> queuedQuestions' # queuedQuestions])]

\* The result of a job of another kind: an error, or its whole list
otherResultDelivered(t, err, n) ==
    /\ t.kind # StreamKind
    /\ handleBriefSectionResult(t, err, n)
    /\ UNCHANGED stream

\* handlePaperResult: a document with text starts the job, one without
\* cancels the run.
paperDelivered(p) ==
    /\ p.FullText => stream.pc = "idle"
    /\ handlePaperResult(p)
    /\ stream' = IF p.FullText THEN streamStarted(p.ID) ELSE streamCancelled(stream)

\* "Load new paper": resetBriefState cancels the run
loadNew ==
    /\ actionLoadNewCmd
    /\ stream' = streamCancelled(stream)

NextStream ==
    \/ submitURL /\ UNCHANGED stream
    \/ submitQuestion /\ UNCHANGED stream
    \/ loadNew
    \/ handlePaperError /\ UNCHANGED stream
    \/ \E p \in Papers : paperDelivered(p)
    \/ \E n \in 0..scope.bullets, done \in BOOLEAN : adapterDelta(n, done)
    \/ adapterFails
    \/ adapterEnds
    \/ selectSend
    \/ selectDone
    \/ deadline
    \/ waitBriefSectionStream
    \/ streamDelivered
    \/ resultDelivered
    \/ \E t \in JobKeys, err \in BOOLEAN : otherResultDelivered(t, err, scope.bullets)
    \/ \E j \in questionJobs, err \in BOOLEAN :
          handleQuestionResult(j, err) /\ UNCHANGED stream

(***************************************************************************)
(* The knowledge-base store (package notes) and the jobs that call it.     *)
(* The job bus runs every job in a goroutine of its own and nothing orders *)
(* two of them; the store takes no lock.  An operation reads the whole     *)
(* file (os.ReadFile), changes the entries in memory and writes the whole  *)
(* file back (os.WriteFile: the file is truncated when it is opened, and   *)
(* the bytes are written from offset 0 afterwards).  Notes of a snapshot   *)
(* are merged exactly as its messages are and stand with them; the three   *)
(* bullet lists of its brief stand as the numbers of their bullets (0 is   *)
(* the nil list).                                                          *)
(***************************************************************************)
StoreJobs == {"job1", "job2"}

entryTypeConversation == "conversation"

entryTypeNote == "note"

\* The updates the n-th operation can carry.
Updates(n) ==
    { NoUpdate,
      [NoUpdate EXCEPT !.Messages = <<n>>],
      [NoUpdate EXCEPT !.Brief = BriefSnapshot("summary", n),
          !.SectionMetadata = <<BriefSectionMetadata("summary", "completed", n)>>],
      [NoUpdate EXCEPT
          !.SectionMetadata = <<BriefSectionMetadata("technical", "failed", n)>>],
      [NoUpdate EXCEPT
          !.SectionMetadata = <<BriefSectionMetadata("summary", "running", n),
                                BriefSectionMetadata("summary", "completed", n)>>],
      [NoUpdate EXCEPT
          !.SectionMetadata = <<BriefSectionMetadata("", "completed", n)>>] }

\* The updates of messages and of bullets the n-th operation can carry
BriefUpdates(n) ==
    { NoUpdate,
      [NoUpdate EXCEPT !.Messages = <<n>>],
      [NoUpdate EXCEPT !.Brief = BriefSnapshot("summary", n)],
      [NoUpdate EXCEPT !.Brief = BriefSnapshot("technical", n)],
      [NoUpdate EXCEPT !.Brief = EmptyBrief] }

\* A note as notes.Save marshals it: no entryType field
NoteEntry(n) ==
    [EntryType |-> "", PaperID |-> "", Messages |-> <<n>>, Brief |-> NilBrief,
     SectionMetadata |-> <<>>]

\* The snapshot ensureConversationSnapshotJob saves
NewSnapshot(id) ==
    [EntryType |-> entryTypeConversation, PaperID |-> id, Messages |-> <<>>,
     Brief |-> NilBrief, SectionMetadata |-> <<>>]

detectEntryType(e) == IF e.EntryType = "" THEN entryTypeNote ELSE e.EntryType

\* The positions of the conversation snapshots of document id
SnapshotsOf(entries, id) ==
    {i \in 1..Len(entries) :
        detectEntryType(entries[i]) = entryTypeConversation /\ entries[i].PaperID = id}

\* mergeSectionMetadata, one update: replace the first entry of the kind,
\* or append
mergeOneSectionMetadata(result, update) ==
    LET same == {i \in 1..Len(result) : result[i].Kind = update.Kind}
    IN  IF update.Kind = "" THEN result
        ELSE IF same # {}
             THEN [result EXCEPT ![CHOOSE i \in same : \A j \in same : i <= j] = update]
             ELSE Append(result, update)

RECURSIVE mergeSectionMetadata(_, _)
mergeSectionMetadata(existing, updates) ==
    IF Len(updates) = 0 THEN existing
    ELSE mergeSectionMetadata(mergeOneSectionMetadata(existing, Head(updates)),
                              Tail(updates))

\* A merge that puts the messages of the update in front of those stored
appendMessages_Prepend(existing, messages) == messages \o existing

\* AppendConversationSnapshot, the messages (and the notes) of the snapshot
\* found: append(snapshot.Messages, update.Messages...)
appendMessages(existing, messages) == existing \o messages

\* A merge that takes the whole brief of the update for the brief stored
mergeBrief_Whole(existing, update) ==
    IF update.nil THEN existing ELSE update

\* AppendConversationSnapshot, the brief of the snapshot found: a nil list of
\* the update leaves the stored list, any other replaces it
mergeBrief(existing, update) ==
    IF update.nil THEN existing
    ELSE LET base == IF existing.nil THEN EmptyBrief ELSE existing
         IN  [base EXCEPT !.lists =
                 [kind \in Kinds |->
                     IF update.lists[kind] # 0 THEN update.lists[kind] ELSE @[kind]]]

\* copyBriefSnapshot: nil for nil, else a copy of the three lists
copyBriefSnapshot(source) ==
    IF source.nil THEN NilBrief
    ELSE [nil |-> FALSE, lists |-> [kind \in Kinds |-> source.lists[kind]]]

\* AppendConversationSnapshot: the entries it writes, from the entries it read
mergeSnapshotUpdate(entries, id, update) ==
    LET found == SnapshotsOf(entries, id)
    IN  IF found # {}
        THEN [entries EXCEPT ![CHOOSE i \in found : \A j \in found : i <= j] =
                [@ EXCEPT
                   !.EntryType = entryTypeConversation,
                   !.Messages = appendMessages(@, update.Messages),
                   !.Brief = mergeBrief(@, update.Brief),
                   !.SectionMetadata =
                       IF Len(update.SectionMetadata) > 0
                       THEN mergeSectionMetadata(@, update.SectionMetadata)
                       ELSE @]]
        ELSE Append(entries,
                [EntryType |-> entryTypeConversation, PaperID |-> id,
                 Messages |-> update.Messages,
                 Brief |-> copyBriefSnapshot(update.Brief),
                 SectionMetadata |-> update.SectionMetadata])

\* ensureConversationSnapshotJob run alone: the entries it leaves
ensureSnapshot(entries, id) ==
    IF SnapshotsOf(entries, id) # {} THEN entries
    ELSE entries \o <<NewSnapshot(id)>>

\* The errors of a read
ErrNotExist == "file does not exist"

ErrSyntax == "invalid character"

loadEntries_MissingIsEmpty(missing, corrupt, entries) ==
    IF missing THEN [err |-> "", entries |-> <<>>]
    ELSE IF corrupt THEN [err |-> ErrSyntax, entries |-> <<>>]
    ELSE [err |-> "", entries |-> entries]

\* loadEntries: os.ReadFile fails on a missing file; a blank file is an
\* empty log; bytes that are not a JSON array fail to unmarshal
loadEntries(missing, corrupt, entries) ==
    IF missing THEN [err |-> ErrNotExist, entries |-> <<>>]
    ELSE IF corrupt THEN [err |-> ErrSyntax, entries |-> <<>>]
    ELSE [err |-> "", entries |-> entries]

\* errors.Is(err, os.ErrNotExist)
IsNotExist(err) == err = ErrNotExist

\* A caller that takes every failed read for an empty log
entriesOrFail_Swallow(r) ==
    IF r.err # "" THEN [err |-> "", entries |-> <<>>]
    ELSE [err |-> "", entries |-> r.entries]

\* The entries a caller goes on with when it takes a missing file for an
\* empty log: an error other than ErrNotExist is returned, not swallowed
entriesOrFail(r) ==
    IF r.err # "" /\ ~IsNotExist(r.err) THEN [err |-> r.err, entries |-> <<>>]
    ELSE [err |-> "", entries |-> r.entries]

\* notes.Load: the notes of the log
Load(missing, corrupt, entries) ==
    LET r == loadEntries(missing, corrupt, entries)
    IN  IF r.err # "" THEN r
        ELSE [err |-> "",
              entries |-> SelectSeq(r.entries,
                             LAMBDA e : detectEntryType(e) = entryTypeNote)]

\* notes.LoadConversationSnapshots: the conversation snapshots of the log
LoadConversationSnapshots(missing, corrupt, entries) ==
    LET r == loadEntries(missing, corrupt, entries)
    IN  IF r.err # "" THEN r
        ELSE [err |-> "",
              entries |-> SelectSeq(r.entries,
                             LAMBDA e : detectEntryType(e) = entryTypeConversation)]

NoOp == [op |-> "", id |-> "", update |-> NoUpdate, n |-> 0]

\* Operations started so far
CallsStarted ==
    Len(storeDone) + Cardinality({p \in StoreJobs : storePc[p] # "idle"})

InitStore ==
    /\ file = <<>>
    /\ fileCorrupt = FALSE
    /\ fileMissing = TRUE
    /\ storePc = [p \in StoreJobs |-> "idle"]
    /\ storeOp = [p \in StoreJobs |-> NoOp]
    /\ storeBuf = [p \in StoreJobs |-> <<>>]
    /\ storeDone = <<>>

\* The job's runner returns: err == nil iff ok
storeReturn(p, op, ok) ==
    /\ storePc' = [storePc EXCEPT ![p] = "idle"]
    /\ storeOp' = [storeOp EXCEPT ![p] = NoOp]
    /\ storeBuf' = [storeBuf EXCEPT ![p] = <<>>]
    /\ storeDone' = Append(storeDone,
                       [op |-> op.op, id |-> op.id, update |-> op.update,
                        n |-> op.n, ok |-> ok])

\* The job goes on to the next file access with `entries` in hand
storeGoto(p, op, pc, entries) ==
    /\ storePc' = [storePc EXCEPT ![p] = pc]
    /\ storeOp' = [storeOp EXCEPT ![p] = op]
    /\ storeBuf' = [storeBuf EXCEPT ![p] = entries]
    /\ UNCHANGED storeDone

\* ensureConversationSnapshotJob up to the end of LoadConversationSnapshots
ensureConversationSnapshotJob(p, id) ==
    /\ storePc[p] = "idle"
    /\ CallsStarted < MaxCalls
    /\ LET op == [op |-> "ensure", id |-> id, update |-> NoUpdate,
                  n |-> CallsStarted + 1]
           r == entriesOrFail(LoadConversationSnapshots(fileMissing, fileCorrupt, file))
       IN  IF r.err # "" THEN storeReturn(p, op, FALSE)
           ELSE IF SnapshotsOf(r.entries, id) # {} THEN storeReturn(p, op, TRUE)
           ELSE storeGoto(p, op, "appendEntries", <<NewSnapshot(id)>>)
    /\ UNCHANGED <<file, fileCorrupt, fileMissing, uiVars, packVars, scope>>

\* saveNotesJob up to the call of appendEntries
saveNotesJob(p) ==
    /\ storePc[p] = "idle"
    /\ CallsStarted < MaxCalls
    /\ LET op == [op |-> "save", id |-> "", update |-> NoUpdate,
                  n |-> CallsStarted + 1]
       IN  storeGoto(p, op, "appendEntries", <<NoteEntry(op.n)>>)
    /\ UNCHANGED <<file, fileCorrupt, fileMissing, uiVars, packVars, scope>>

\* appendEntries up to the end of loadEntries
appendEntries(p) ==
    /\ storePc[p] = "appendEntries"
    /\ LET r == entriesOrFail(loadEntries(fileMissing, fileCorrupt, file))
       IN  IF r.err # "" THEN storeReturn(p, storeOp[p], FALSE)
           ELSE storeGoto(p, storeOp[p], "writeEntries", r.entries \o storeBuf[p])
    /\ UNCHANGED <<file, fileCorrupt, fileMissing, uiVars, packVars, scope>>

\* appendConversationSnapshotJob: AppendConversationSnapshot up to the call
\* of writeEntries
AppendConversationSnapshot(p, id, update) ==
    /\ storePc[p] = "idle"
    /\ CallsStarted < MaxCalls
    /\ LET op == [op |-> "append", id |-> id, update |-> update,
                  n |-> CallsStarted + 1]
           r == entriesOrFail(loadEntries(fileMissing, fileCorrupt, file))
       IN  IF update = NoUpdate THEN storeReturn(p, op, TRUE)
           ELSE IF r.err # "" THEN storeReturn(p, op, FALSE)
           ELSE storeGoto(p, op, "writeEntries",
                          mergeSnapshotUpdate(r.entries, id, update))
    /\ UNCHANGED <<file, fileCorrupt, fileMissing, uiVars, packVars, scope>>

\* writeEntries, os.WriteFile opening the file: O_TRUNC empties it
writeEntriesOpen(p) ==
    /\ storePc[p] = "writeEntries"
    /\ file' = <<>>
    /\ fileCorrupt' = FALSE
    /\ fileMissing' = FALSE
    /\ storePc' = [storePc EXCEPT ![p] = "write"]
    /\ UNCHANGED <<storeOp, storeBuf, storeDone, uiVars, packVars, scope>>

\* writeEntries, os.WriteFile writing the bytes from offset 0 and returning.
\* If another job wrote since this one opened the file, the bytes land on
\* top of that job's: the file holds this job's entries, or, when they are
\* the shorter, its bytes followed by the rest of the other's (garbled).
writeEntriesWrite(p, garbled) ==
    /\ storePc[p] = "write"
    /\ garbled => (file # <<>> \/ fileCorrupt)
    /\ file' = IF garbled THEN <<>> ELSE storeBuf[p]
    /\ fileCorrupt' = garbled
    /\ storeReturn(p, storeOp[p], TRUE)
    /\ UNCHANGED <<fileMissing, uiVars, packVars, scope>>

NextStore ==
    \/ \E p \in StoreJobs, id \in PaperIDs : ensureConversationSnapshotJob(p, id)
    \/ \E p \in StoreJobs : saveNotesJob(p)
    \/ \E p \in StoreJobs : appendEntries(p)
    \/ \E p \in StoreJobs, id \in PaperIDs :
          \E update \in Updates(CallsStarted + 1) :
             AppendConversationSnapshot(p, id, update)
    \/ \E p \in StoreJobs : writeEntriesOpen(p)
    \/ \E p \in StoreJobs, garbled \in BOOLEAN : writeEntriesWrite(p, garbled)

\* What a reader of the store gets and shows, as the entry of storeDone
ReadDone(name, r) ==
    [op |-> name, id |-> "", update |-> NoUpdate, n |-> CallsStarted + 1,
     ok |-> r.err = "", err |-> r.err, entries |-> r.entries,
     errorMessage |-> IF r.err # "" /\ ~IsNotExist(r.err)
                      THEN "knowledge base error" ELSE ""]

\* refreshPersistedState with a document and a store path: notes.Load
refreshPersistedState ==
    /\ CallsStarted < MaxCalls
    /\ storeDone' = Append(storeDone,
                       ReadDone("Load", Load(fileMissing, fileCorrupt, file)))
    /\ UNCHANGED <<file, fileCorrupt, fileMissing, storePc, storeOp, storeBuf,
                   uiVars, packVars, scope>>

\* hydrateConversationHistory with a document and a store path:
\* notes.LoadConversationSnapshots
hydrateConversationHistory ==
    /\ CallsStarted < MaxCalls
    /\ storeDone' = Append(storeDone,
                       ReadDone("LoadConversationSnapshots",
                           LoadConversationSnapshots(fileMissing, fileCorrupt, file)))
    /\ UNCHANGED <<file, fileCorrupt, fileMissing, storePc, storeOp, storeBuf,
                   uiVars, packVars, scope>>

\* The store used by one job at a time, and the readers of the interface.
NextMerge ==
    \/ \E id \in PaperIDs : ensureConversationSnapshotJob("job1", id)
    \/ appendEntries("job1")
    \/ \E id \in PaperIDs :
          \E update \in BriefUpdates(CallsStarted + 1) :
             AppendConversationSnapshot("job1", id, update)
    \/ writeEntriesOpen("job1")
    \/ \E garbled \in BOOLEAN : writeEntriesWrite("job1", garbled)

NextLog ==
    \/ refreshPersistedState
    \/ hydrateConversationHistory
    \/ \E id \in PaperIDs : ensureConversationSnapshotJob("job1", id)
    \/ saveNotesJob("job1")
    \/ appendEntries("job1")
    \/ \E id \in PaperIDs :
          \E update \in Updates(CallsStarted + 1) :
             AppendConversationSnapshot("job1", id, update)
    \/ writeEntriesOpen("job1")
    \/ \E garbled \in BOOLEAN : writeEntriesWrite("job1", garbled)

\* A builder is constructed, or builds the package of a document.  Build
\* leaves the builder as it is and a new builder owes nothing to the last,
\* so both are taken from a builder that has not built yet.
NextPackager ==
    \/ \E b \in [Kinds -> 0..MaxBudget] :
          /\ pkg = NoPackage /\ content = <<>>
          /\ NewBuilder(b)
          /\ UNCHANGED <<uiVars, storeVars, scope, sectionJob, bus>>
    \/ \E doc \in Documents :
          /\ pkg = NoPackage /\ content = <<>>
          /\ content' = doc
          /\ pkg' = BuildPackage(budgets, doc)
          /\ UNCHANGED <<configured, budgets, uiVars, storeVars, scope, sectionJob,
                         bus>>

\* ensureBriefContexts builds the package of the document's text with a
\* builder of the default budgets (NewBuilder(nil)); a section job then runs
\* on it.
NextSection ==
    \/ \E doc \in Documents :
          /\ pkg = NoPackage /\ content = <<>>
          /\ sectionJob = NoSectionJob
          /\ content' = doc
          /\ pkg' = BuildPackage(budgets, doc)
          /\ UNCHANGED <<configured, budgets, uiVars, storeVars, scope, sectionJob,
                         bus>>
    \/ \E kind \in Kinds :
          /\ briefSectionJob(kind)
          /\ UNCHANGED <<configured, budgets, content, pkg, uiVars, storeVars, scope,
                         bus>>

(***************************************************************************)
(* Specifications.                                                         *)
(***************************************************************************)
Next ==
    \/ submitURL /\ UNCHANGED stream
    \/ submitQuestion /\ UNCHANGED stream
    \/ actionSummarizeCmd /\ UNCHANGED stream
    \/ actionLoadNewCmd /\ UNCHANGED stream
    \/ handlePaperError /\ UNCHANGED stream
    \/ \E p \in Papers : handlePaperResult(p) /\ UNCHANGED stream
    \/ \E t \in JobKeys, err \in BOOLEAN, n \in 0..scope.bullets :
          handleBriefSectionResult(t, err, n) /\ UNCHANGED stream
    \/ \E t \in JobKeys, n \in 0..scope.bullets, done \in BOOLEAN :
          handleBriefSectionStream(t, n, done) /\ UNCHANGED stream
    \/ \E j \in questionJobs, err \in BOOLEAN :
          handleQuestionResult(j, err) /\ UNCHANGED stream

Init ==
    /\ InitModel
    /\ InitStore
    /\ InitPackager
    /\ scope = [questions |-> MaxQuestions, pending |-> MaxPending,
                bullets |-> 0, trace |-> FALSE]

Spec == Init /\ [][Next]_vars

InitBrief ==
    /\ InitModel
    /\ InitStore
    /\ InitPackager
    /\ scope = [questions |-> 1, pending |-> 0,
                bullets |-> MaxBullets, trace |-> TRUE]

SpecBrief == InitBrief /\ [][Next]_vars

\* Every section job and every question job in flight delivers its result:
\* the job bus runs each in a goroutine of its own and the program's loop
\* takes every message sent to it.
sectionResultDelivered ==
    \E t \in JobKeys, err \in BOOLEAN, n \in 0..scope.bullets :
        handleBriefSectionResult(t, err, n) /\ UNCHANGED stream

questionResultDelivered ==
    \E j \in questionJobs, err \in BOOLEAN :
        handleQuestionResult(j, err) /\ UNCHANGED stream

\* The interface with no job of an earlier run or document left in flight
\* when a run starts.
InitLive ==
    /\ InitModel
    /\ InitStore
    /\ InitPackager
    /\ scope = [questions |-> MaxQuestions, pending |-> 0, bullets |-> 0,
                trace |-> FALSE]

SpecLive ==
    /\ InitLive
    /\ [][Next]_vars
    /\ WF_vars(sectionResultDelivered)
    /\ WF_vars(questionResultDelivered)

\* The interface with room for a question asked after two were queued.
InitQueue ==
    /\ InitModel
    /\ InitStore
    /\ InitPackager
    /\ scope = [questions |-> MaxQuestions + 1, pending |-> 0, bullets |-> 0,
                trace |-> FALSE]

SpecQueue == InitQueue /\ [][Next]_vars

\* One run of the brief with the job of its summary followed step by step.
InitStream ==
    /\ InitModel
    /\ InitStore
    /\ InitPackager
    /\ scope = [questions |-> 1, pending |-> 0, bullets |-> MaxBullets + 1,
                trace |-> FALSE]

SpecStream == InitStream /\ [][NextStream]_vars

\* The model as the package's tests build it before they submit a question:
\* a document is set and every kind's section state is given directly, idle
\* (ensureBriefSections), completed or failed, with no job started; or the
\* model is new.
InitSubmit ==
    /\ brief = [k \in Kinds |-> <<>>]
    /\ briefLoading = FALSE
    /\ briefStreamCancels = {}
    /\ qaHistory = <<>>
    /\ queuedQuestions = <<>>
    /\ questionLoading = FALSE
    /\ fetchJob = FALSE
    /\ sectionJobs = NoJobs
    /\ questionJobs = {}
    /\ lastOp = [op |-> "new", paperID |-> "", kind |-> "", err |-> FALSE,
                sectionUpdate |-> NoUpdate]
    /\ stream = NoStream
    /\ paper \in Papers \cup {NilPaper}
    /\ briefSections \in
          [Kinds -> {IdleState,
                     [IdleState EXCEPT !.Completed = TRUE],
                     [IdleState EXCEPT !.Error = "section error"]}]
    /\ paper = NilPaper => briefSections = resetSections
    /\ InitStore
    /\ InitPackager
    /\ scope = [questions |-> MaxQuestions, pending |-> 0,
                bullets |-> 0, trace |-> FALSE]

SpecSubmit == InitSubmit /\ [][Next]_vars

\* The interface with jobs of a superseded run still in flight when the next
\* document arrives.
InitCancel ==
    /\ InitModel
    /\ InitStore
    /\ InitPackager
    /\ scope = [questions |-> 1, pending |-> MaxPending + 1, bullets |-> 0,
                trace |-> FALSE]

SpecCancel == InitCancel /\ [][Next]_vars

SpecStore == Init /\ [][NextStore]_vars

\* The logs an earlier run can have left at the path
Logs ==
    { <<NoteEntry(0)>>,
      <<NewSnapshot("p1")>>,
      <<NoteEntry(0), NewSnapshot("p1")>>,
      <<NewSnapshot("p2"), NoteEntry(0), NewSnapshot("p1")>> }

\* The store over every file an earlier run or the user can have left: none,
\* a blank one, one that is not a JSON array, or a log.
InitLog ==
    /\ InitModel
    /\ InitPackager
    /\ scope = [questions |-> MaxQuestions, pending |-> MaxPending,
                bullets |-> 0, trace |-> FALSE]
    /\ storePc = [p \in StoreJobs |-> "idle"]
    /\ storeOp = [p \in StoreJobs |-> NoOp]
    /\ storeBuf = [p \in StoreJobs |-> <<>>]
    /\ storeDone = <<>>
    /\ \/ fileMissing = TRUE /\ fileCorrupt = FALSE /\ file = <<>>
       \/ fileMissing = FALSE /\ fileCorrupt = TRUE /\ file = <<>>
       \/ fileMissing = FALSE /\ fileCorrupt = FALSE /\ file \in Logs \cup {<<>>}

SpecLog == InitLog /\ [][NextLog]_vars

\* The store, one operation at a time, under updates of messages and of the
\* bullets of one kind.
SpecMerge == InitLog /\ [][NextMerge]_vars

SpecPackager == Init /\ [][NextPackager]_vars

SpecSection == Init /\ [][NextSection]_vars

\* The job bus alone
SpecJobs == Init /\ [][NextJobs]_vars

\* A command the runtime has taken is run, a message sent is received, and
\* a runner returns: every runner works under a deadline
JobsFairness ==
    /\ WF_vars(\E i \in JobSlots : i <= Len(bus.jobs) /\ startCmd(i))
    /\ WF_vars(\E i \in JobSlots : i <= Len(bus.jobs) /\ updateJobSignal(i))
    /\ WF_vars(\E i \in JobSlots, err \in RunnerErrors :
                  i <= Len(bus.jobs) /\ runCmd(i, err))
    /\ WF_vars(\E i \in JobSlots : i <= Len(bus.jobs) /\ updateJobResult(i))

\* The job bus with commands run, messages received and runners returning
SpecJobsFair == Init /\ [][NextJobs]_vars /\ JobsFairness

(***************************************************************************)
(* The dependent-work scheduler (Spec).                                    *)
(***************************************************************************)
\* In the formulas below a step that submits a question is one that grows
\* qaHistory (only submitComposer does), and a step that ends the last
\* running section is one before which some kind is Loading and after which
\* none is, the document staying.

\* C1: a question submitted while one kind has succeeded and another is
\* running is appended to the queue and not dispatched; and the step in which
\* the last running kind reaches a terminal state releases exactly the
\* oldest queued question: the queue loses its head and a job for it starts.
C1_ReleasedAtLastTerminal ==
    [][ /\ ( /\ Len(qaHistory') = Len(qaHistory) + 1
             /\ \E k \in Kinds : briefSections[k].Completed /\ ~briefSections[k].Loading
             /\ \E k \in Kinds : briefSections[k].Loading )
           => /\ queuedQuestions' = Append(queuedQuestions, Len(qaHistory))
              /\ questionJobs' = questionJobs
        /\ ( /\ anyBriefSectionLoading(briefSections)
             /\ ~anyBriefSectionLoading(briefSections')
             /\ paper' = paper
             /\ Len(queuedQuestions) > 0 )
           => /\ queuedQuestions' = Tail(queuedQuestions)
              /\ questionJobs' \ questionJobs =
                   {[paperID |-> paper.ID, index |-> Head(queuedQuestions),
                     stale |-> FALSE]}
      ]_vars

\* C2 as stated: whenever the queue changes, either a submission appended to
\* it or its head was dispatched (the queue loses its head and a job for it
\* starts); document loads included.
C2_QueueLeavesOnlyByDispatch ==
    [][ queuedQuestions' # queuedQuestions =>
          \/ queuedQuestions' = Append(queuedQuestions, Len(qaHistory))
          \/ /\ Len(queuedQuestions) > 0
             /\ queuedQuestions' = Tail(queuedQuestions)
             /\ questionJobs' \ questionJobs =
                  {[paperID |-> paper.ID, index |-> Head(queuedQuestions),
                    stale |-> FALSE]}
      ]_vars

\* C2, amended: whenever the queue changes, either a submission appended to
\* it, or its head was dispatched, or a fetch job delivered a document and
\* the handler emptied the queue together with the question history.
C2_QueueLeavesByDispatchOrLoad ==
    [][ queuedQuestions' # queuedQuestions =>
          \/ queuedQuestions' = Append(queuedQuestions, Len(qaHistory))
          \/ /\ Len(queuedQuestions) > 0
             /\ queuedQuestions' = Tail(queuedQuestions)
             /\ questionJobs' \ questionJobs =
                  {[paperID |-> paper.ID, index |-> Head(queuedQuestions),
                    stale |-> FALSE]}
          \/ /\ fetchJob /\ ~fetchJob'
             /\ queuedQuestions' = <<>>
             /\ qaHistory' = <<>>
      ]_vars

\* C2 witness: a question released from the queue is in flight while another
\* still waits: its job is live and its entry has no draft answer although the
\* document has an abstract (a question dispatched on submission gets one).
C2_Witness ==
    /\ paper.Abstract
    /\ Len(queuedQuestions) > 0
    /\ \E j \in questionJobs :
          /\ ~j.stale
          /\ j.paperID = paper.ID
          /\ j.index < Len(qaHistory)
          /\ qaHistory[j.index + 1].Pending
          /\ qaHistory[j.index + 1].Answer = ""

\* C3: in every step that submits a question while at least one kind is
\* running, the question is appended to the queue and no question job starts.
C3_SubmitQueuesWhileRunning ==
    [][ ( /\ Len(qaHistory') = Len(qaHistory) + 1
          /\ anyBriefSectionLoading(briefSections) )
        => /\ queuedQuestions' = Append(queuedQuestions, Len(qaHistory))
           /\ questionJobs' = questionJobs
      ]_vars

\* C12: in every step that starts a job for a question that was waiting in
\* the queue, that question was submitted before every other question
\* waiting (a question's index is its place in the order of submission), and
\* the others keep waiting in their order.
C12_ReleasedInSubmissionOrder ==
    [][ \A j \in questionJobs' \ questionJobs :
           ( /\ ~j.stale
             /\ \E i \in 1..Len(queuedQuestions) : queuedQuestions[i] = j.index )
           => /\ \A i \in 1..Len(queuedQuestions) : j.index <= queuedQuestions[i]
              /\ queuedQuestions' = Tail(queuedQuestions)
              /\ \A i \in 1..Len(queuedQuestions') : j.index < queuedQuestions'[i]
      ]_vars

\* C12 witness: of two questions queued, the first submitted has been
\* released (its job is in flight, without a draft answer) and the second
\* still waits.
C12_Witness ==
    /\ paper.Abstract
    /\ queuedQuestions = <<1>>
    /\ [paperID |-> paper.ID, index |-> 0, stale |-> FALSE] \in questionJobs
    /\ qaHistory[1].Answer = ""
    /\ qaHistory[1].Pending

InFlight == {j.index : j \in {x \in questionJobs : ~x.stale}}

\* The questions waiting in the queue
Queued == {queuedQuestions[i] : i \in 1..Len(queuedQuestions)}

\* The step starts the job of question `index` of the document shown.
Dispatches(index) ==
    LET job == [paperID |-> paper.ID, index |-> index, stale |-> FALSE]
    IN  job \notin questionJobs /\ job \in questionJobs'

\* C31: each submitted question is dispatched at most once, and no question
\* is queued and in flight at the same time.  A question is born either
\* queued or dispatched (submitComposer), a queued one leaves the queue only
\* by being dispatched (maybeStartQueuedQuestion) or by the next load's
\* reset, no question enters the queue twice, and a job is started by these
\* two steps only.
C31_DispatchedAtMostOnce ==
    /\ [](/\ Queued \cap InFlight = {}
          /\ Cardinality(Queued) = Len(queuedQuestions))
    /\ [][/\ queuedQuestions' # queuedQuestions
             => \/ /\ queuedQuestions' = Append(queuedQuestions, Len(qaHistory))
                   /\ Len(qaHistory') = Len(qaHistory) + 1
                   /\ ~\E i \in 0..Len(qaHistory) : Dispatches(i)
                \/ /\ queuedQuestions # <<>>
                   /\ queuedQuestions' = Tail(queuedQuestions)
                   /\ Dispatches(Head(queuedQuestions))
                   /\ \A i \in 0..Len(qaHistory) :
                         Dispatches(i) => i = Head(queuedQuestions)
                \/ /\ queuedQuestions' = <<>>
                   /\ qaHistory' = <<>>
          /\ queuedQuestions' = queuedQuestions
             => \A i \in 0..Len(qaHistory) :
                   Dispatches(i) => /\ i = Len(qaHistory)
                                    /\ Len(qaHistory') = Len(qaHistory) + 1
         ]_vars

\* One question was released from the queue and is in flight while the one
\* submitted after it is still queued.
C31_Witness ==
    /\ Len(qaHistory) = 2
    /\ queuedQuestions = <<1>>
    /\ InFlight = {0}
    /\ paper # NilPaper

(***************************************************************************)
(* Release of the queue when results are delivered (SpecLive).             *)
(***************************************************************************)
\* Two questions wait in the queue while all three kinds are running.
TwoQueuedWhileRunning ==
    /\ queuedQuestions = <<0, 1>>
    /\ \A k \in Kinds : briefSections[k].Loading

\* Question `index` was submitted and has left the queue.
Dispatched(index) ==
    /\ Len(qaHistory) > index
    /\ \A i \in 1..Len(queuedQuestions) : queuedQuestions[i] # index

\* C22 as stated: when two questions are queued while all three kinds are
\* running and every job delivers its result, both are eventually
\* dispatched, and the second is never dispatched while the first waits.
C22_BothEventuallyDispatched ==
    /\ TwoQueuedWhileRunning ~> (Dispatched(0) /\ Dispatched(1))
    /\ [](Dispatched(1) => Dispatched(0))

\* C22, amended: when two questions are queued while all three kinds are
\* running and every job delivers its result, both are eventually
\* dispatched, the first-submitted one first, unless the document is first
\* unloaded or replaced by a load, which drops them undispatched.
C22_BothDispatchedUnlessReloaded ==
    /\ TwoQueuedWhileRunning ~>
          \/ Dispatched(0) /\ Dispatched(1)
          \/ paper = NilPaper
          \/ Len(qaHistory) < 2
    /\ [](Dispatched(1) => Dispatched(0))

\* C22 witness: both questions were released from the queue (a released
\* question gets no draft answer): the first has failed, the second is in
\* flight, and every kind is terminal.
C22_Witness ==
    /\ paper.Abstract
    /\ queuedQuestions = <<>>
    /\ Len(qaHistory) = 2
    /\ qaHistory[1] = [Pending |-> FALSE, Answer |-> "", Error |-> "err"]
    /\ qaHistory[2] = [Pending |-> TRUE, Answer |-> "", Error |-> ""]
    /\ questionJobs = {[paperID |-> paper.ID, index |-> 1, stale |-> FALSE]}
    /\ ~anyBriefSectionLoading(briefSections)

(***************************************************************************)
(* The order of dispatch (SpecQueue).                                      *)
(***************************************************************************)
\* C26: a question submitted later is never dispatched before one submitted
\* earlier that is still waiting in the queue: a step that starts the job of
\* a question leaves no question of a smaller index queued.
C26_NoOvertaking ==
    [][\A j \in questionJobs' \ questionJobs :
          \A i \in 1..Len(queuedQuestions') : queuedQuestions'[i] > j.index]_vars

(***************************************************************************)
(* The deltas and the result of one job (SpecStream).                      *)
(***************************************************************************)
\* C23: within one run the bullets of a kind are never retracted: every
\* update applied to them, a delta's or the final result's, carries the same
\* or a later accumulated list than the update applied before it.
C23_BulletsNeverRetracted ==
    \A i \in 1..Len(stream.applied) : \A j \in 1..Len(stream.applied) :
        i < j => stream.applied[i].bullets <= stream.applied[j].bullets

\* The deltas applied to the bullets so far, in the order of application
AppliedDeltas == SelectSeq(stream.applied, LAMBDA a : a.from = "delta")

\* C24: within one kind and one run the deltas are applied in the order the
\* task produced them: no delta is applied after one produced later.
C24_DeltasAppliedInOrder ==
    \A i \in 1..Len(AppliedDeltas) : \A j \in 1..Len(AppliedDeltas) :
        i < j => AppliedDeltas[i].seq < AppliedDeltas[j].seq

\* Three deltas have been applied, the last of them sent while the first two
\* were still in the channel.
C24_Witness ==
    /\ Len(AppliedDeltas) >= 3
    /\ stream.produced >= 4

\* C25: once the job's context is done (cancelled, or past its deadline) the
\* runner forwards no further delta: nothing is added to the channel.
C25_NoDeltaForwardedAfterDone ==
    [][stream.ctxDone => Len(stream'.updates) <= Len(stream.updates)]_vars

\* Update applies a delta of the job to the document on screen
DeltaApplied ==
    /\ stream.reader = "msg"
    /\ stream'.reader # "msg"
    /\ ~staleMessage(paper, stream.paperID)

\* Update applies the job's successful result to the document on screen
ResultApplied ==
    /\ stream.result.sent
    /\ ~stream'.result.sent
    /\ ~stream.result.err
    /\ ~staleMessage(paper, stream.paperID)

C4_FailureTouchesOneKind ==
    [][ ( /\ lastOp'.op = "sectionResult"
          /\ lastOp'.err
          /\ ~staleMessage(paper, lastOp'.paperID) )
        => \A k \in Kinds \ {lastOp'.kind} :
              /\ briefSections'[k] = briefSections[k]
              /\ brief'[k] = brief[k]
      ]_vars

\* C4 witness: a failure result was just handled for the document shown; its
\* kind carries the error, another kind is still running and a third has
\* completed with bullets.
C4_Witness ==
    /\ lastOp.op = "sectionResult"
    /\ lastOp.err
    /\ paper.ID = lastOp.paperID
    /\ briefSections[lastOp.kind].Error # ""
    /\ \E k1, k2 \in Kinds \ {lastOp.kind} :
          /\ briefSections[k1].Loading
          /\ briefSections[k2].Completed /\ ~briefSections[k2].Loading
          /\ Len(brief[k2]) > 0

\* C5: a step that handles a section delta or result tagged with the id of a
\* document that is not the one shown changes no section state, no bullets
\* and not the queue.
C5_StaleMessageDiscarded ==
    [][ ( /\ lastOp'.op \in {"sectionResult", "sectionStream"}
          /\ lastOp'.paperID # paper.ID )
        => /\ briefSections' = briefSections
           /\ brief' = brief
           /\ briefLoading' = briefLoading
           /\ queuedQuestions' = queuedQuestions
           /\ qaHistory' = qaHistory
           /\ questionJobs' = questionJobs
      ]_vars

\* C5 witness: a successful result of a job for p1 was just handled while p2
\* is shown.
C5_Witness ==
    /\ lastOp.op = "sectionResult"
    /\ ~lastOp.err
    /\ lastOp.paperID = "p1"
    /\ paper.ID = "p2"

\* C14: in every step that reruns the brief while some kind has failed,
\* each failed kind is running afterwards and each kind that had succeeded
\* keeps its state and its bullets.
C14_RetryLeavesSucceededUntouched ==
    [][ ( /\ lastOp'.op = "summarize"
          /\ sectionJobs' # sectionJobs
          /\ \E k \in Kinds : briefSections[k].Error # "" )
        => /\ \A k \in Kinds :
                briefSections[k].Error # "" => briefSections'[k].Loading
           /\ \A k \in Kinds :
                (briefSections[k].Completed /\ ~briefSections[k].Loading)
                    => /\ briefSections'[k] = briefSections[k]
                       /\ brief'[k] = brief[k]
      ]_vars

\* C16: in every step, a kind for which a job starts is loading with no
\* error afterwards; a kind whose success result is applied is completed,
\* not loading and without error afterwards; a kind whose failure result is
\* applied is not loading, not completed and has a non-empty error text
\* afterwards.
C16_StateAfterStartAndResult ==
    [][ /\ \A t \in JobKeys :
              (~t.cancelled /\ sectionJobs'[t] > sectionJobs[t])
                  => /\ briefSections'[t.kind].Loading
                     /\ briefSections'[t.kind].Error = ""
        /\ ( /\ lastOp'.op = "sectionResult"
             /\ sectionJobs' # sectionJobs
             /\ ~staleMessage(paper, lastOp'.paperID) )
           => LET state == briefSections'[lastOp'.kind]
              IN  IF lastOp'.err
                  THEN ~state.Loading /\ ~state.Completed /\ state.Error # ""
                  ELSE ~state.Loading /\ state.Completed /\ state.Error = ""
      ]_vars

\* C16 witness: the failure result of one kind of the document shown was
\* applied in a rerun, after that kind had completed: it is not loading, not
\* completed and has an error text, while another kind is still loading.
C16_Witness ==
    /\ lastOp.op = "sectionResult"
    /\ lastOp.err
    /\ paper # NilPaper
    /\ paper.ID = lastOp.paperID
    /\ briefSections[lastOp.kind] =
           [Loading |-> FALSE, Completed |-> FALSE, Error |-> "section error"]
    /\ \E k \in Kinds : briefSections[k].Loading /\ briefSections[k].Completed

\* C18: in every step that applies the result of a section job of the
\* document shown, a snapshot job is started whose update carries that
\* kind's metadata, and the bullets of the result when it succeeded.
C18_SectionOutcomeAppended ==
    [][ ( /\ lastOp'.op = "sectionResult"
          /\ sectionJobs' # sectionJobs
          /\ ~staleMessage(paper, lastOp'.paperID) )
        => /\ Len(lastOp'.sectionUpdate.SectionMetadata) = 1
           /\ lastOp'.sectionUpdate.SectionMetadata[1].Kind = lastOp'.kind
           /\ lastOp'.sectionUpdate.SectionMetadata[1].Status =
                 (IF lastOp'.err THEN "failed" ELSE "completed")
           /\ ~lastOp'.err =>
                 BulletsOf(paper.ID,
                           BriefBullets(lastOp'.sectionUpdate.Brief, lastOp'.kind))
                    = brief'[lastOp'.kind]
      ]_vars

\* C28: the section state of every kind is exactly one of Idle, Running,
\* Succeeded and Failed: loading and completed are never both true, and an
\* error text never stands with loading or with completed.
C28_ExactlyOneState ==
    \A k \in Kinds :
        /\ ~(briefSections[k].Loading /\ briefSections[k].Completed)
        /\ briefSections[k].Error # ""
           => ~briefSections[k].Loading /\ ~briefSections[k].Completed

(***************************************************************************)
(* Superseded section jobs (SpecCancel).                                   *)
(***************************************************************************)
\* C15: in every step that handles the result of a section job whose
\* context had been cancelled, no kind goes into the failed state: no kind
\* without an error text has one afterwards.
C15_CancelledOutcomeDiscarded ==
    [][ \A t \in JobKeys :
          (t.cancelled /\ sectionJobs'[t] < sectionJobs[t])
              => \A k \in Kinds :
                    briefSections[k].Error = "" => briefSections'[k].Error = ""
      ]_vars

\* C17: at any time each kind has at most one section job in flight whose
\* context has not been cancelled, over all documents.
C17_OneUncancelledJobPerKind ==
    \A k \in Kinds :
        SumJobs(sectionJobs, {t \in JobKeys : t.kind = k /\ ~t.cancelled}) <= 1

\* C17 witness: a kind has a cancelled job of the previous run still in
\* flight next to the uncancelled job of the run that replaced it.
C17_Witness ==
    \E k \in Kinds :
        /\ SumJobs(sectionJobs, {t \in JobKeys : t.kind = k /\ t.cancelled}) > 0
        /\ SumJobs(sectionJobs, {t \in JobKeys : t.kind = k /\ ~t.cancelled}) = 1
        /\ briefSections[k].Loading

\* C30: a question result is recorded only on the entry it was asked for, in
\* the document load it was asked in: the result of a question job of an
\* earlier load changes no entry of the history.
C30_EarlierLoadResultDiscarded ==
    [][(\E j \in questionJobs \ questionJobs' : j.stale)
        => qaHistory' = qaHistory]_vars

\* C40: in every reachable state the brief-loading flag is true exactly when
\* the state of at least one section kind is loading.
C40_LoadingFlagMatchesSections ==
    briefLoading <=> (\E kind \in Kinds : briefSections[kind].Loading)

\* One section has completed, one has failed and one is still loading, and
\* the flag is set
C40_Witness ==
    /\ briefLoading
    /\ \E done, failed, running \in Kinds :
          /\ briefSections[done].Completed /\ ~briefSections[done].Loading
          /\ briefSections[failed].Error # "" /\ ~briefSections[failed].Loading
          /\ briefSections[running].Loading

(***************************************************************************)
(* The store (SpecStore).                                                  *)
(***************************************************************************)
\* No store job is in the middle of an operation.
StoreQuiescent == \A p \in StoreJobs : storePc[p] = "idle"

\* The metadata entry appended last for (id, kind) by the operations that
\* returned without error, as a sequence of at most one entry.
LastAppendedMetadata(id, kind) ==
    LET appended ==
            {i \in 1..Len(storeDone) :
                /\ storeDone[i].op = "append" /\ storeDone[i].ok
                /\ storeDone[i].id = id
                /\ \E j \in 1..Len(storeDone[i].update.SectionMetadata) :
                      storeDone[i].update.SectionMetadata[j].Kind = kind}
    IN  IF appended = {} THEN <<>>
        ELSE LET md == storeDone[CHOOSE i \in appended :
                                    \A j \in appended : j <= i].update.SectionMetadata
                 at == {j \in 1..Len(md) : md[j].Kind = kind}
             IN  <<md[CHOOSE j \in at : \A l \in at : l <= j]>>

\* C6: once every operation in flight has returned, the file is a readable
\* log that holds the effect of every operation that returned without
\* error: the snapshot an ensure asked for, the note a save appended, and
\* every message an update appended to its document's snapshot.
C6_EveryEffectInFinalLog ==
    StoreQuiescent =>
        /\ ~fileCorrupt
        /\ \A i \in 1..Len(storeDone) :
              storeDone[i].ok =>
                 /\ storeDone[i].op = "ensure" =>
                       SnapshotsOf(file, storeDone[i].id) # {}
                 /\ storeDone[i].op = "save" =>
                       \E k \in 1..Len(file) : file[k] = NoteEntry(storeDone[i].n)
                 /\ (storeDone[i].op = "append" /\ storeDone[i].update # NoUpdate) =>
                       /\ SnapshotsOf(file, storeDone[i].id) # {}
                       /\ \A m \in 1..Len(storeDone[i].update.Messages) :
                             \E k \in SnapshotsOf(file, storeDone[i].id) :
                                \E l \in 1..Len(file[k].Messages) :
                                   file[k].Messages[l] = storeDone[i].update.Messages[m]

\* C7: the log never holds two conversation snapshots of the same document.
C7_OneSnapshotPerDocument ==
    \A id \in PaperIDs : Cardinality(SnapshotsOf(file, id)) <= 1

\* C8: from any log the store has produced, with no operation in flight,
\* running ensureConversationSnapshotJob twice in succession for a document
\* leaves exactly one snapshot of that document.
C8_EnsureTwiceLeavesOne ==
    (StoreQuiescent /\ ~fileCorrupt) =>
        \A id \in PaperIDs :
           Cardinality(SnapshotsOf(ensureSnapshot(ensureSnapshot(file, id), id), id)) = 1

\* C9: once the operations have returned, every stored snapshot holds at
\* most one metadata entry per kind, and it is the entry appended last for
\* that kind.
C9_OneMetadataPerKind ==
    (StoreQuiescent /\ ~fileCorrupt) =>
        \A id \in PaperIDs : \A k \in SnapshotsOf(file, id) : \A kind \in Kinds :
           LET md == file[k].SectionMetadata
               at == {i \in 1..Len(md) : md[i].Kind = kind}
               last == LastAppendedMetadata(id, kind)
           IN  /\ Cardinality(at) <= 1
               /\ last # <<>> => \E i \in at : md[i] = last[1]

\* The entries `new` keep every entry of `old` at its position, unchanged or,
\* for a conversation snapshot, replaced by a snapshot of the same document.
KeepsRecords(old, new) ==
    /\ Len(new) >= Len(old)
    /\ \A i \in 1..Len(old) :
          \/ new[i] = old[i]
          \/ /\ detectEntryType(old[i]) = entryTypeConversation
             /\ detectEntryType(new[i]) = entryTypeConversation
             /\ new[i].PaperID = old[i].PaperID

\* C20: in every step in which a job opens a readable file to write it, the
\* entries it is about to write keep every record the file holds, in order:
\* each is unchanged, or is a conversation snapshot replaced in place; the
\* new records come after them.
C20_WritesKeepRecords ==
    [][ \A p \in StoreJobs :
          (storePc[p] = "writeEntries" /\ storePc'[p] = "write" /\ ~fileCorrupt)
              => KeepsRecords(file, storeBuf[p])
      ]_vars

(***************************************************************************)
(* The store, one operation at a time (SpecLog).                           *)
(***************************************************************************)
\* The entry a step added to storeDone, as a sequence of at most one entry.
Returned ==
    IF Len(storeDone') = Len(storeDone) + 1
    THEN <<storeDone'[Len(storeDone')]>>
    ELSE <<>>

\* The step is a read by a reader of the interface.
ReaderReads ==
    /\ Returned # <<>>
    /\ Returned[1].op \in {"Load", "LoadConversationSnapshots"}

\* The step is a read of the file by the job: the load of ensure, the load
\* of appendEntries, or the load of an append that has something to merge.
JobReads ==
    \/ storePc["job1"] = "appendEntries" /\ storePc'["job1"] # "appendEntries"
    \/ /\ storePc["job1"] = "idle"
       /\ \/ storePc'["job1"] = "appendEntries" /\ storeOp'["job1"].op = "ensure"
          \/ storePc'["job1"] = "writeEntries"
          \/ /\ Returned # <<>>
             /\ \/ Returned[1].op = "ensure"
                \/ Returned[1].op = "append" /\ Returned[1].update # NoUpdate

\* A job that read a missing file goes on as from an empty log and does not
\* return an error; a job that read a corrupt file returns an error at once
\* and leaves the file alone.
JobReadOutcome ==
    JobReads =>
        /\ fileMissing =>
              /\ Returned # <<>> => Returned[1].ok
              /\ storePc["job1"] = "appendEntries" =>
                    /\ storePc'["job1"] = "writeEntries"
                    /\ storeBuf'["job1"] = storeBuf["job1"]
        /\ fileCorrupt =>
              /\ Returned # <<>>
              /\ ~Returned[1].ok
              /\ file' = file /\ fileCorrupt' /\ ~fileMissing'

\* C19 as stated: every read of a missing file, by a reader or by a job,
\* returns no error and gives an empty log, and every read of a corrupt
\* file returns an error.
C19_MissingFileReadsEmpty ==
    [][ /\ JobReadOutcome
        /\ ReaderReads =>
              /\ fileMissing => Returned[1].err = "" /\ Returned[1].entries = <<>>
              /\ fileCorrupt => Returned[1].err # ""
      ]_vars

\* C19, amended: Load and LoadConversationSnapshots return the error of the
\* missing file to their caller, which recognises it and shows an empty
\* document history without an error message; the reads inside ensure,
\* appendEntries and AppendConversationSnapshot take a missing file for an
\* empty log and return no error; every read of a corrupt file returns an
\* error that is not the missing-file error, and the reader shows it.
C19_MissingFileEmptyForCallers ==
    [][ /\ JobReadOutcome
        /\ ReaderReads =>
              /\ fileMissing =>
                    /\ IsNotExist(Returned[1].err)
                    /\ Returned[1].entries = <<>>
                    /\ Returned[1].errorMessage = ""
              /\ fileCorrupt =>
                    /\ Returned[1].err # ""
                    /\ ~IsNotExist(Returned[1].err)
                    /\ Returned[1].errorMessage # ""
              /\ (~fileMissing /\ ~fileCorrupt) =>
                    /\ Returned[1].err = ""
                    /\ Returned[1].errorMessage = ""
                    /\ Len(Returned[1].entries) <= Len(file)
      ]_vars

\* C19 witness: with no file at the path, Load returned the missing-file
\* error and its caller showed nothing, and then a job saved a note, which
\* is the whole log.
C19_Witness ==
    /\ Len(storeDone) = 2
    /\ storeDone[1].op = "Load"
    /\ IsNotExist(storeDone[1].err)
    /\ storeDone[1].errorMessage = ""
    /\ storeDone[2].op = "save"
    /\ storeDone[2].ok
    /\ file = <<NoteEntry(2)>>
    /\ ~fileMissing

\* C21: in every step in which a job opens the file to write it, the file
\* holds afterwards the complete log it held before or the complete log the
\* job is writing, so that a process that stops there leaves one of the two.
C21_WriteIsAtomic ==
    [][ \A p \in StoreJobs :
          (storePc[p] = "writeEntries" /\ storePc'[p] = "write")
              => /\ ~fileCorrupt'
                 /\ file' = file \/ file' = storeBuf[p]
      ]_vars

\* The step in which a job's runner returns, and what it returned
JobReturns == Len(storeDone') = Len(storeDone) + 1

LastDone == storeDone'[Len(storeDone')]

\* C32: when ensureConversationSnapshotJob or AppendConversationSnapshot
\* returns an error because the log is corrupt, the file is left as it was:
\* the failing operation has written nothing (it fails at a read, before
\* writeEntries), and no step changes a corrupt file.
C32_CorruptLogLeftUnchanged ==
    [][/\ (JobReturns /\ LastDone.op \in {"ensure", "append"} /\ ~LastDone.ok)
          => /\ fileCorrupt
             /\ storePc["job1"] \in {"idle", "appendEntries"}
             /\ UNCHANGED <<file, fileCorrupt, fileMissing>>
       /\ fileCorrupt => UNCHANGED <<file, fileCorrupt, fileMissing>>]_vars

\* Both operations have failed on a corrupt log, which is still there.
C32_Witness ==
    /\ fileCorrupt
    /\ ~fileMissing
    /\ \E i \in 1..Len(storeDone) : storeDone[i].op = "ensure" /\ ~storeDone[i].ok
    /\ \E i \in 1..Len(storeDone) : storeDone[i].op = "append" /\ ~storeDone[i].ok

(***************************************************************************)
(* Merging updates into the stored snapshot (SpecMerge).                   *)
(***************************************************************************)
\* An update that carries no message (and no note), no bullet of any kind
\* and no metadata
NoPayload(update) ==
    /\ Len(update.Messages) = 0
    /\ \A kind \in Kinds : BriefBullets(update.Brief, kind) = 0
    /\ Len(update.SectionMetadata) = 0

\* C33: no step of an AppendConversationSnapshot whose update has no
\* messages, no notes, no bullets and no metadata changes the log file: it
\* is not written, and it is not created when it was missing.
C33_NoPayloadWritesNothing ==
    [][\A p \in StoreJobs :
          (storeOp[p].op = "append" /\ NoPayload(storeOp[p].update))
          => UNCHANGED <<file, fileCorrupt, fileMissing>>]_vars

\* The brief of the snapshot of document id an AppendConversationSnapshot
\* finds in entries: that of the first match, nil when there is none
StoredBrief(entries, id) ==
    LET found == SnapshotsOf(entries, id)
    IN  IF found = {} THEN NilBrief
        ELSE entries[CHOOSE i \in found : \A j \in found : i <= j].Brief

\* The update carries bullets for kind and for no other kind
CarriesOnly(update, kind) ==
    /\ BriefBullets(update.Brief, kind) > 0
    /\ \A other \in Kinds \ {kind} : BriefBullets(update.Brief, other) = 0

\* The step in which job p has read the log and merged its update
Merges(p) ==
    /\ storePc[p] = "idle"
    /\ storePc'[p] = "writeEntries"
    /\ storeOp'[p].op = "append"

StoredMessages(entries, id) ==
    LET found == SnapshotsOf(entries, id)
    IN  IF found = {} THEN <<>>
        ELSE entries[CHOOSE i \in found : \A j \in found : i <= j].Messages

\* The messages of the updates of the operations done that appended to the
\* snapshot of document id without an error, in the order of the calls
RECURSIVE MessagesAppended(_, _)
MessagesAppended(done, id) ==
    IF Len(done) = 0 THEN <<>>
    ELSE LET last == done[Len(done)]
             rest == MessagesAppended(SubSeq(done, 1, Len(done) - 1), id)
         IN  IF last.op = "append" /\ last.id = id /\ last.ok
             THEN rest \o last.update.Messages
             ELSE rest

\* C35: when operations ran one after another on a log that held no message,
\* the messages stored for a document are the messages of the updates
\* appended to it, in call order, each once.
C35_MessagesConcatenated ==
    (storePc["job1"] = "idle" /\ ~fileCorrupt)
    => \A id \in PaperIDs :
          StoredMessages(file, id) = MessagesAppended(storeDone, id)

\* Messages were appended to a snapshot that already held a message
C35_Witness ==
    /\ storePc["job1"] = "idle"
    /\ ~fileCorrupt
    /\ \E id \in PaperIDs : Len(StoredMessages(file, id)) = 2

(***************************************************************************)
(* The snapshots of a job (SpecJobsFair).                                  *)
(***************************************************************************)
\* Job i has been started
Started(i) == i <= Len(bus.jobs)

\* The snapshots job i has sent so far
SentBy(i) == bus.jobs[i].sent

\* C36: a job sends its running snapshot first and then one terminal
\* snapshot, succeeded when its runner returned no error and failed with the
\* text of the error otherwise; it sends nothing after that, and every job
\* started does send its terminal snapshot.
C36_RunningThenOneTerminal ==
    /\ [](\A i \in JobSlots :
            Started(i) =>
               /\ Len(SentBy(i)) <= 2
               /\ Len(SentBy(i)) >= 1 =>
                     /\ SentBy(i)[1].Status = jobStatusRunning
                     /\ SentBy(i)[1].ID = bus.jobs[i].id
               /\ Len(SentBy(i)) = 2 =>
                     /\ SentBy(i)[2].ID = bus.jobs[i].id
                     /\ SentBy(i)[2].Status =
                           (IF bus.jobs[i].err = "" THEN jobStatusSucceeded
                            ELSE jobStatusFailed)
                     /\ SentBy(i)[2].Err = bus.jobs[i].err)
    /\ [][\A i \in JobSlots :
            Started(i) =>
               /\ Len(bus.jobs'[i].sent) >= Len(SentBy(i))
               /\ SubSeq(bus.jobs'[i].sent, 1, Len(SentBy(i))) = SentBy(i)]_vars
    /\ \A i \in JobSlots :
          Started(i) ~> (Started(i) /\ Len(SentBy(i)) = 2)

\* One job has sent a failed snapshot and another a succeeded one
C36_Witness ==
    \E i, j \in JobSlots :
        /\ Started(i) /\ Started(j)
        /\ Len(SentBy(i)) = 2 /\ SentBy(i)[2].Status = jobStatusFailed
        /\ SentBy(i)[2].Err # ""
        /\ Len(SentBy(j)) = 2 /\ SentBy(j)[2].Status = jobStatusSucceeded
        /\ bus.jobs[i].pc = "done"

(***************************************************************************)
(* The section job and its context (SpecSection).                          *)
(***************************************************************************)
\* C29 as stated: when the packaged context of the kind is empty, generation
\* is refused.
C29_EmptyContextRefused ==
    (sectionJob # NoSectionJob /\ TrimSpace(sectionJob.contextText) = <<>>)
        => sectionJob.refused

\* C29, amended: a job whose packaged context is blank hands the adapter the
\* document's whole text instead; generation is refused exactly when what the
\* adapter is handed is blank, that is when the packaged context and the
\* document's text are both blank, and otherwise the clipped text is the
\* prompt's context.
C29_RefusedWhenNoTextAtAll ==
    sectionJob # NoSectionJob
        => /\ sectionJob.refused
              <=> /\ TrimSpace(sectionJob.contextText) = <<>>
                  /\ TrimSpace(sectionJob.FullText) = <<>>
           /\ TrimSpace(sectionJob.contextText) = <<>>
              => sectionJob.prompted
                    = clipBriefSectionContext(sectionJob.kind, sectionJob.FullText)
           /\ TrimSpace(sectionJob.contextText) # <<>>
              => sectionJob.prompted
                    = clipBriefSectionContext(sectionJob.kind, sectionJob.contextText)

\* A document of boilerplate only: its packaged context is empty, and the job
\* ran on the whole text.
C29_Witness ==
    /\ sectionJob # NoSectionJob
    /\ sectionJob.contextText = <<>>
    /\ sectionJob.FullText # <<>>
    /\ ~sectionJob.refused
    /\ sectionJob.prompted # <<>>

(***************************************************************************)
(* The context builder (SpecPackager).                                     *)
(***************************************************************************)
\* C10: for every kind configured with a positive budget, the section
\* context of the package holds no more runes than that budget.
C10_SectionWithinBudget ==
    \A kind \in Kinds :
       configured[kind] > 0 => runeLen(pkg.Sections[kind]) <= configured[kind]

\* C10 witness: a package was built for a builder whose budget for some kind
\* is smaller than the first chunk, and that kind's section is the chunk cut
\* to the budget; another kind's section holds a whole chunk, the separator
\* and a cut second chunk.
C10_Witness ==
    /\ Len(pkg.Chunks) >= 2
    /\ \E kind \in Kinds :
          /\ configured[kind] > 0
          /\ configured[kind] < runeLen(pkg.Chunks[1].Text)
          /\ runeLen(pkg.Sections[kind]) = configured[kind]
    /\ \E kind \in Kinds :
          /\ configured[kind] > runeLen(pkg.Chunks[1].Text) + 2
          /\ runeLen(pkg.Sections[kind]) = configured[kind]
          /\ Contains(pkg.Sections[kind], "\n")

\* C11: no two chunks of a package are equal after trimming and collapsing
\* runs of whitespace, and every paragraph of the content that is neither
\* blank nor boilerplate is represented by exactly one chunk, whose text is
\* the trimmed text of the first paragraph equal to it after normalising.
C11_ChunksDeduplicated ==
    LET norm(text) == collapseSpaces(TrimSpace(text))
        kept == {p \in 1..Len(content) :
                    TrimSpace(content[p]) # <<>> /\ ~isBoilerplate(content[p])}
    IN  /\ \A i, j \in 1..Len(pkg.Chunks) :
              i # j => /\ pkg.Chunks[i].ID # pkg.Chunks[j].ID
                       /\ norm(pkg.Chunks[i].Text) # norm(pkg.Chunks[j].Text)
        /\ \A p \in kept :
              LET first == CHOOSE q \in kept :
                              /\ norm(content[q]) = norm(content[p])
                              /\ \A r \in kept :
                                    norm(content[r]) = norm(content[p]) => q <= r
                  same == {i \in 1..Len(pkg.Chunks) :
                              norm(pkg.Chunks[i].Text) = norm(content[p])}
              IN  /\ Cardinality(same) = 1
                  /\ \A i \in same : pkg.Chunks[i].Text = TrimSpace(content[first])

\* C11 witness: the content holds two paragraphs that differ as written and
\* are equal after normalising, and the package holds the first only.
C11_Witness ==
    /\ Len(content) = 2
    /\ TrimSpace(content[1]) # TrimSpace(content[2])
    /\ collapseSpaces(TrimSpace(content[1])) = collapseSpaces(TrimSpace(content[2]))
    /\ Len(pkg.Chunks) = 1
    /\ pkg.Chunks[1].Text = TrimSpace(content[1])

\* The chunks in the order Build clips them for kind
OrderedChunks(kind) ==
    IF kind = "technical" THEN rankChunksForTechnical(pkg.Chunks) ELSE pkg.Chunks

\* The texts of chunks joined by the separator "\n\n"
RECURSIVE JoinChunks(_)
JoinChunks(chunks) ==
    IF Len(chunks) = 0 THEN <<>>
    ELSE IF Len(chunks) = 1 THEN chunks[1].Text
    ELSE JoinChunks(SubSeq(chunks, 1, Len(chunks) - 1))
            \o <<"\n", "\n">> \o chunks[Len(chunks)].Text

\* A builder was made with budgets, one of them positive
Configured == \E kind \in Kinds : configured[kind] > 0

IsPrefix(prefix, text) ==
    /\ Len(prefix) <= Len(text)
    /\ SubSeq(text, 1, Len(prefix)) = prefix

\* C38: the section context of every kind is a prefix of the kind's ordered
\* chunk texts joined by the two-rune separator, and when the joined text is
\* longer than the kind's budget the context holds at least budget - 2
\* runes.
C38_PrefixAndNearlyFull ==
    \A kind \in Kinds :
       LET joined == JoinChunks(OrderedChunks(kind))
       IN  /\ IsPrefix(pkg.Sections[kind], joined)
           /\ runeLen(joined) > budgets[kind]
              => runeLen(pkg.Sections[kind]) >= budgets[kind] - 2

\* One section stops before the separator, two runes short of its budget;
\* another is cut inside its second chunk and fills its budget
C38_Witness ==
    /\ Len(pkg.Chunks) = 2
    /\ \E kind \in Kinds :
          /\ pkg.Sections[kind] = OrderedChunks(kind)[1].Text
          /\ runeLen(pkg.Sections[kind]) = budgets[kind] - 2
    /\ \E kind \in Kinds :
          /\ runeLen(pkg.Sections[kind]) = budgets[kind]
          /\ runeLen(pkg.Sections[kind]) > runeLen(OrderedChunks(kind)[1].Text) + 2
          /\ runeLen(JoinChunks(OrderedChunks(kind))) > budgets[kind]

\* C39: the chunks the Technical section is clipped from are the chunks of
\* the package, each once, ordered by relevance score from the highest, and
\* chunks of equal score stand in document order; the Technical section is
\* taken from them in that order, and the section of every other kind from
\* the chunks in document order.
C39_TechnicalRankedStable ==
    LET ranked == rankChunksForTechnical(pkg.Chunks)
        score(chunk) == scoreTechnicalChunk(chunk.Text)
    IN  /\ Len(ranked) = Len(pkg.Chunks)
        /\ \A i \in 1..Len(pkg.Chunks) :
              Cardinality({j \in 1..Len(ranked) : ranked[j] = pkg.Chunks[i]}) = 1
        /\ \A i, j \in 1..Len(ranked) :
              i < j => \/ score(ranked[i]) > score(ranked[j])
                       \/ /\ score(ranked[i]) = score(ranked[j])
                          /\ ranked[i].Start < ranked[j].Start
        /\ IsPrefix(pkg.Sections["technical"], JoinChunks(ranked))
        /\ \A kind \in Kinds \ {"technical"} :
              IsPrefix(pkg.Sections[kind], JoinChunks(pkg.Chunks))

\* The second chunk of the document scores higher than the first, and the
\* Technical section begins with it while the Summary section begins with
\* the first
C39_Witness ==
    /\ Len(pkg.Chunks) = 2
    /\ scoreTechnicalChunk(pkg.Chunks[2].Text) > scoreTechnicalChunk(pkg.Chunks[1].Text)
    /\ scoreTechnicalChunk(pkg.Chunks[1].Text) > 0
    /\ IsPrefix(pkg.Chunks[2].Text, pkg.Sections["technical"])
    /\ IsPrefix(pkg.Chunks[1].Text, pkg.Sections["summary"])

====
